---- MODULE Spec2Model ----
(***************************************************************************)
(* Instance lifecycle of the VS Code DevContainer Manager API              *)
(* (src/devcontainer-api/app/main.py).                                     *)
(*                                                                         *)
(* The orchestrator state is the set of instance-named objects per         *)
(* instance plus the per-user shared claims.  Every orchestrator API call  *)
(* of a handler or of a background job is one step, so that the thread-    *)
(* pool handlers (delete, status queries) interleave with the creates at   *)
(* every call.  An API call may fail with a non-404 error while the fault  *)
(* budget lasts.                                                           *)
(***************************************************************************)
EXTENDS Integers, Sequences, FiniteSets, TLC

\* ------------------------------------------------------------------ bounds
MaxFaults == 1

MaxDeletes == 2

\* DELETE requests in the specification with the GET clients
MaxViewDeletes == 1

\* available replicas the orchestrator may report
MaxReplicas == 4

\* ------------------------------------------------------------ identifiers
\* generate_instance_id: f"{user_id}-{random_suffix}", uuid4().hex[:8]
generate_instance_id(user_id, random_suffix) == user_id \o "-" \o random_suffix

Instances == {generate_instance_id("alice", "0000000a")}

\* the id generated for a user_id that is no valid object name everywhere
OtherInstances == {generate_instance_id("al.ice", "0000000b")}

\* a second id generated for the user of Instances
SiblingInstances == {generate_instance_id("alice", "0000000c")}

AllInstances == Instances \cup OtherInstances \cup SiblingInstances

\* the user_id an instance id was generated from
UserOf(i) == SubSeq(i, 1, Len(i) - 9)

Users == {UserOf(i) : i \in Instances}

AllUsers == {UserOf(i) : i \in AllInstances}

Deleters == 1..MaxDeletes

CascadeKinds == {"config", "workspace", "workload", "service", "ingress"}

Kinds == CascadeKinds \cup {"buildstatus", "buildlogs"}

BuildKinds == {"devcontainer", "workspace"}

Archives == {"with_devcontainer", "without_devcontainer", "not_gzip"}

NoTracker == [status |-> "", error |-> ""]

NoResp == [code |-> 0, status |-> "", devcontainer_image |-> ""]

IdleDelete == [pc |-> "idle", k |-> 0, res |-> 0, ctx |-> "", s6 |-> FALSE]

\* generate_access_token: uuid4().hex (one representative value)
AccessTokens == {"9f86d081884c7d659a2feaa0c55ad015"}

BASE_DOMAIN == "vscode.local"

INSTANCES_PATH_PREFIX == "/instances"

generate_instance_path(i) == INSTANCES_PATH_PREFIX \o "/" \o i

\* url = f"https://{BASE_DOMAIN}{path}?tkn={access_token}"
instance_url(i, t) ==
    "https://" \o BASE_DOMAIN \o generate_instance_path(i) \o "?tkn=" \o t

NoCred == [access_token |-> "", url |-> ""]

NoConfig == [TOKEN |-> "", BASE_IMAGE |-> "", DEVCONTAINER_IMAGE |-> "",
             VSCODE_CONFIG |-> ""]

IdleView == [op |-> "", pc |-> "idle", code |-> 0, status |-> "", url |-> "",
             logs |-> "", devcontainer_image |-> ""]

\* ------------------------------------------------------------------ images
DEFAULT_BASE_IMAGE == "ubuntu:22.04"

DEFAULT_SHARED_STORAGE_SIZE == "5Gi"

\* shared_storage_size values of the POSTs
SharedSizes == {DEFAULT_SHARED_STORAGE_SIZE, "10Gi"}

\* the clients that leave shared_storage_size at its default
DefaultSizes == {DEFAULT_SHARED_STORAGE_SIZE}

\* in the cluster images are pushed through the node address and pulled by
\* the pods from localhost
PUSH_REGISTRY == "10.0.0.5:32000"

PULL_REGISTRY == "localhost:32000"

push_image_name(i) == PUSH_REGISTRY \o "/vscode-devcontainer-" \o i \o ":latest"

pull_image_name(i) == PULL_REGISTRY \o "/vscode-devcontainer-" \o i \o ":latest"

\* the characters of a text
Chars(s) == {SubSeq(s, n, n) : n \in 1..Len(s)}

AlphaNumerics ==
    Chars("abcdefghijklmnopqrstuvwxyzABCDEFGHIJKLMNOPQRSTUVWXYZ0123456789")

\* re.match(r'^[a-zA-Z0-9][-a-zA-Z0-9_./:]*$', v): $ also matches before a
\* newline that ends the text
validate_base_image(v) ==
    LET body == IF Len(v) > 0 /\ SubSeq(v, Len(v), Len(v)) = "\n"
                THEN SubSeq(v, 1, Len(v) - 1) ELSE v
    IN  /\ Len(body) > 0
        /\ SubSeq(body, 1, 1) \in AlphaNumerics
        /\ Chars(SubSeq(body, 2, Len(body))) \subseteq
              AlphaNumerics \cup Chars("-_./:")

\* base_image values of POST /instances/simple
BaseImages == {DEFAULT_BASE_IMAGE, "python:3.11-slim", "-bad image", ""}

\* the clients that leave base_image at its default
DefaultImages == {DEFAULT_BASE_IMAGE}

\* ------------------------------------------------------------- descriptors
\* contents of the uploaded devcontainer_json file
DescriptorPlain == "{\"image\":\"ubuntu:22.04\"}"

DescriptorPython ==
    "{\"image\":\"ubuntu:22.04\",\"customizations\":{\"vscode\":{\"extensions\":[\"ms-python.python\"]}}}"

DescriptorTwo ==
    "{\"customizations\":{\"vscode\":{\"extensions\":[\"ms-python.python\",\"golang.go\"]}}}"

DescriptorCut == "{\"image\":"

DescriptorArray == "[\"ubuntu:22.04\"]"

\* bytes that are not UTF-8 (written in hexadecimal)
DescriptorBytes == "ff fe 7b 7d"

Uploads ==
    {DescriptorPlain, DescriptorPython, DescriptorTwo, DescriptorCut,
     DescriptorArray, DescriptorBytes}

\* the uploads of the lifecycle specifications: one that parses, one that
\* does not
PlainUploads == {DescriptorPlain, DescriptorCut}

\* devcontainer_config is None
NoneValue == [type |-> "None", extensions |-> <<>>]

\* json.loads(content): the exception raised, or the value with its
\* customizations.vscode.extensions
json_loads(content) ==
    CASE content = DescriptorPlain ->
            [exc |-> "", value |-> [type |-> "dict", extensions |-> <<>>]]
      [] content = DescriptorPython ->
            [exc |-> "",
             value |-> [type |-> "dict", extensions |-> <<"ms-python.python">>]]
      [] content = DescriptorTwo ->
            [exc |-> "",
             value |-> [type |-> "dict",
                        extensions |-> <<"ms-python.python", "golang.go">>]]
      [] content = DescriptorArray ->
            [exc |-> "", value |-> [type |-> "list", extensions |-> <<>>]]
      [] content = DescriptorCut ->
            [exc |-> "JSONDecodeError", value |-> NoneValue]
      [] content = DescriptorBytes ->
            [exc |-> "UnicodeDecodeError", value |-> NoneValue]

\* the devcontainer.json found in an uploaded workspace archive
ArchiveDescriptor == json_loads(DescriptorPython).value

RECURSIVE JoinQuoted(_)
\* json.dumps of a list of strings, without the brackets
JoinQuoted(seq) ==
    IF seq = <<>> THEN ""
    ELSE "\"" \o Head(seq) \o "\"" \o
         (IF Len(seq) > 1 THEN ", " ELSE "") \o JoinQuoted(Tail(seq))

\* create_configmap: json.dumps(vscode_config); the extensions are copied
\* from a devcontainer_config that is not None and not empty
vscode_config(devcontainer_config) ==
    "{\"extensions\": [" \o JoinQuoted(devcontainer_config.extensions)
        \o "], \"settings\": {}}"

\* create_deployment: devcontainer_image or DEFAULT_BASE_IMAGE
container_image(devcontainer_image) ==
    IF devcontainer_image # "" THEN devcontainer_image ELSE DEFAULT_BASE_IMAGE

NoRequest ==
    [base_image |-> "", shared_storage_size |-> "", devcontainer_json |-> "",
     devcontainer_config |-> NoneValue]

\* deployment.status.available_replicas is None
NoneReplicas == -1

NoProbe == [code |-> 200, available_replicas |-> NoneReplicas, out |-> ""]

VARIABLES
    objs,        \* objs[i]: kinds of instance-named objects that exist
    shared,      \* users whose <user_id>-shared claim exists
    sharedSize,  \* spec.resources.requests["storage"] of <user_id>-shared
    tracker,     \* data of <id>-build-status: status, error
    logsData,    \* data["logs"] of <id>-build-logs
    avail,       \* status.available_replicas of the workload
    req,         \* which create endpoint was called for the id
    archive,     \* the uploaded workspace archive
    pc,          \* position of the create handler / background job
    cmBound,     \* the job's local status_cm is bound (its read succeeded)
    buildLog,    \* the job's local build_logs buffer
    err,         \* str(e) of the exception raised in the create, "" if none
    resp,        \* response of the POST
    del,         \* del[i][d]: the DELETE requests
    poll,        \* the client polling GET /build-status: pc, last status
    createdLog,  \* kinds created for the id, in order of success
    faults,      \* orchestrator errors injected so far
    configData,  \* data of <id>-config
    cred,        \* the create handler's access_token and url
    view,        \* the client of GET /instances/{id} and GET /build-logs
    probe,       \* a call of get_instance_status on its own: inputs, result
    request,     \* the POST's base_image, upload and parsed devcontainer_config
    image        \* the container image of the workload

vars == <<objs, shared, sharedSize, tracker, logsData, avail, req, archive, pc, cmBound,
          buildLog, err, resp, del, poll, createdLog, faults, configData,
          cred, view, probe, request, image>>

orch == <<objs, shared, sharedSize, tracker, logsData, configData, avail,
          image>>

\* the clients that only look at instances
watch == <<view, probe>>

\* nothing has been requested yet
Dormant ==
    /\ objs = [i \in AllInstances |-> {}]
    /\ shared \in SUBSET Users    \* earlier instances of the user may have left it
    /\ sharedSize = [u \in AllUsers |->
                        IF u \in shared THEN DEFAULT_SHARED_STORAGE_SIZE ELSE ""]
    /\ tracker = [i \in AllInstances |-> NoTracker]
    /\ logsData = [i \in AllInstances |-> ""]
    /\ avail = [i \in AllInstances |-> 0]
    /\ req = [i \in AllInstances |-> "none"]
    /\ archive = [i \in AllInstances |-> ""]
    /\ pc = [i \in AllInstances |-> "none"]
    /\ cmBound = [i \in AllInstances |-> FALSE]
    /\ buildLog = [i \in AllInstances |-> ""]
    /\ err = [i \in AllInstances |-> ""]
    /\ resp = [i \in AllInstances |-> NoResp]
    /\ del = [i \in AllInstances |-> [d \in Deleters |-> IdleDelete]]
    /\ poll = [i \in AllInstances |-> [pc |-> "idle", last |-> "none"]]
    /\ createdLog = [i \in AllInstances |-> <<>>]
    /\ faults = 0
    /\ configData = [i \in AllInstances |-> NoConfig]
    /\ cred = [i \in AllInstances |-> NoCred]
    /\ view = [i \in AllInstances |-> IdleView]
    /\ request = [i \in AllInstances |-> NoRequest]
    /\ image = [i \in AllInstances |-> ""]

Init == Dormant /\ probe = NoProbe

\* --------------------------------------------------------- orchestrator
\* a call answered with a non-404 ApiException
Fault == faults < MaxFaults /\ faults' = faults + 1

NoFault == faults' = faults

Exists(i, k) == IF k = "shared" THEN UserOf(i) \in shared ELSE k \in objs[i]

\* metadata.name of the object of kind k for instance i
object_name(i, k) ==
    CASE k = "shared"      -> UserOf(i) \o "-shared"
      [] k = "workload"    -> i
      [] k = "config"      -> i \o "-config"
      [] k = "workspace"   -> i \o "-workspace"
      [] k = "service"     -> i \o "-service"
      [] k = "ingress"     -> i \o "-ingress"
      [] k = "buildstatus" -> i \o "-build-status"
      [] k = "buildlogs"   -> i \o "-build-logs"

LowerAlphaNumerics == Chars("abcdefghijklmnopqrstuvwxyz0123456789")

\* the orchestrator's rule for the names of ConfigMaps, PersistentVolumeClaims,
\* Deployments and Ingresses: a DNS subdomain (RFC 1123)
is_dns_subdomain(name) ==
    /\ Len(name) \in 1..253
    /\ Chars(name) \subseteq LowerAlphaNumerics \cup {"-", "."}
    /\ SubSeq(name, 1, 1) \in LowerAlphaNumerics
    /\ SubSeq(name, Len(name), Len(name)) \in LowerAlphaNumerics
    /\ \A n \in 2..(Len(name) - 1) :
          SubSeq(name, n, n) = "."
             => /\ SubSeq(name, n - 1, n - 1) \in LowerAlphaNumerics
                /\ SubSeq(name, n + 1, n + 1) \in LowerAlphaNumerics

\* the orchestrator's rule for the names of Services: a DNS label (RFC 1035)
is_dns_label(name) ==
    /\ Len(name) \in 1..63
    /\ Chars(name) \subseteq LowerAlphaNumerics \cup {"-"}
    /\ SubSeq(name, 1, 1) \in Chars("abcdefghijklmnopqrstuvwxyz")
    /\ SubSeq(name, Len(name), Len(name)) \in LowerAlphaNumerics

\* a create call is answered 422 Unprocessable Entity when the name of its
\* object breaks the rule of the kind
NameAccepted(i, k) ==
    IF k = "service" THEN is_dns_label(object_name(i, k))
    ELSE is_dns_subdomain(object_name(i, k))

\* create_namespaced_*: the object now exists
Created(i, k) ==
    /\ objs' = [objs EXCEPT ![i] = @ \cup {k}]
    /\ createdLog' = [createdLog EXCEPT ![i] = Append(@, k)]

\* Removed, had the delete calls selected the objects by the user's label
\* instead of by the instance's name
Removed_ByUser(i, k) ==
    LET Hit(j) == UserOf(j) = UserOf(i)
    IN  /\ objs' = [j \in AllInstances |->
                       IF Hit(j) THEN objs[j] \ {k} ELSE objs[j]]
        /\ shared' = IF k = "shared" THEN shared \ {UserOf(i)} ELSE shared
        /\ sharedSize' = IF k = "shared"
                         THEN [sharedSize EXCEPT ![UserOf(i)] = ""]
                         ELSE sharedSize
        /\ tracker' = [j \in AllInstances |->
                          IF Hit(j) /\ k = "buildstatus" THEN NoTracker
                          ELSE tracker[j]]
        /\ logsData' = [j \in AllInstances |->
                           IF Hit(j) /\ k = "buildlogs" THEN "" ELSE logsData[j]]
        /\ configData' = [j \in AllInstances |->
                             IF Hit(j) /\ k = "config" THEN NoConfig
                             ELSE configData[j]]
        /\ avail' = [j \in AllInstances |->
                        IF Hit(j) /\ k = "workload" THEN 0 ELSE avail[j]]
        /\ image' = [j \in AllInstances |->
                        IF Hit(j) /\ k = "workload" THEN "" ELSE image[j]]

\* delete_namespaced_*: the object is gone
Removed(i, k) ==
    /\ objs' = [objs EXCEPT ![i] = @ \ {k}]
    /\ shared' = IF k = "shared" THEN shared \ {UserOf(i)} ELSE shared
    /\ sharedSize' = IF k = "shared" THEN [sharedSize EXCEPT ![UserOf(i)] = ""]
                     ELSE sharedSize
    /\ tracker' = IF k = "buildstatus" THEN [tracker EXCEPT ![i] = NoTracker]
                  ELSE tracker
    /\ logsData' = IF k = "buildlogs" THEN [logsData EXCEPT ![i] = ""]
                   ELSE logsData
    /\ configData' = IF k = "config" THEN [configData EXCEPT ![i] = NoConfig]
                     ELSE configData
    /\ avail' = IF k = "workload" THEN [avail EXCEPT ![i] = 0] ELSE avail
    /\ image' = IF k = "workload" THEN [image EXCEPT ![i] = ""] ELSE image

\* the deployment controller reports the pod of the workload as available
deployment_available(i) ==
    /\ Exists(i, "workload")
    /\ avail[i] = 0
    /\ avail' = [avail EXCEPT ![i] = 1]
    /\ UNCHANGED <<objs, shared, sharedSize, tracker, logsData, configData, image, req, archive,
                   cred, request, pc, cmBound, buildLog, err, resp, del, poll, watch,
                   createdLog, faults>>

\* the status codes read_namespaced_deployment_status is answered with
ApiStatuses == {200, 403, 404, 500, 503}

\* deployment_status, had 0 available replicas counted as Running
deployment_status_ZeroRuns(code, available_replicas) ==
    IF code = 200
    THEN IF available_replicas # NoneReplicas /\ available_replicas >= 0
         THEN "Running" ELSE "Pending"
    ELSE IF code = 404 THEN "NotFound" ELSE "HTTP 500"

\* what get_instance_status makes of the orchestrator's answer: the status
\* string, or the HTTPException(500) it raises on a non-404 error
deployment_status(code, available_replicas) ==
    IF code = 200
    THEN IF available_replicas # NoneReplicas /\ available_replicas > 0
         THEN "Running" ELSE "Pending"
    ELSE IF code = 404 THEN "NotFound" ELSE "HTTP 500"

\* get_instance_status when the orchestrator answers (avail 0: absent or 0)
get_instance_status(i) ==
    deployment_status(IF Exists(i, "workload") THEN 200 ELSE 404, avail[i])

\* the handler's locals access_token and url
generate_access_token(i) ==
    \E t \in AccessTokens :
        cred' = [cred EXCEPT ![i] = [access_token |-> t,
                                     url |-> instance_url(i, t)]]


\* ------------------------------------------------------------- creates
Goto(i, where) == pc' = [pc EXCEPT ![i] = where]

\* Raise, had the job's exception been turned into the response of the POST
Raise_Responds(i, msg) ==
    /\ err' = [err EXCEPT ![i] = msg]
    /\ resp' = [resp EXCEPT ![i] = [code |-> 500, status |-> "", devcontainer_image |-> ""]]
    /\ Goto(i, IF req[i] = "simple" THEN "end" ELSE "patch_failed")

\* an exception leaves the cascade: the simple handler answers 500, the
\* background job falls into its "except Exception" branch
Raise(i, msg) ==
    /\ err' = [err EXCEPT ![i] = msg]
    /\ IF req[i] = "simple"
       THEN /\ Goto(i, "end")
            /\ resp' = [resp EXCEPT ![i] = [code |-> 500, status |-> "", devcontainer_image |-> ""]]
       ELSE /\ Goto(i, "patch_failed")
            /\ UNCHANGED resp

\* AfterCreate, had the cascade returned without create_ingress_for_instance
AfterCreate_NoIngress(k) ==
    CASE k = "config"    -> "workspace"
      [] k = "workspace" -> "workload"
      [] k = "workload"  -> "service"
      [] k = "service"   -> "created"
      [] k = "ingress"   -> "created"

\* AfterCreate, had create_service been called before create_deployment
AfterCreate_ServiceFirst(k) ==
    CASE k = "config"    -> "workspace"
      [] k = "workspace" -> "service"
      [] k = "service"   -> "workload"
      [] k = "workload"  -> "ingress"
      [] k = "ingress"   -> "created"

\* the call that follows the creation of kind k in the three create paths
AfterCreate(k) ==
    CASE k = "config"    -> "workspace"
      [] k = "workspace" -> "workload"
      [] k = "workload"  -> "service"
      [] k = "service"   -> "ingress"
      [] k = "ingress"   -> "created"

\* the cascade returned: the simple handler answers 201 Creating, the job
\* goes on to write completed
Proceed(i, where) ==
    IF where = "created"
    THEN IF req[i] = "simple"
         THEN /\ Goto(i, "end")
              /\ resp' = [resp EXCEPT ![i] =
                             [code |-> 201, status |-> "Creating",
                              devcontainer_image |-> ""]]
         ELSE /\ Goto(i, "patch_completed")
              /\ UNCHANGED resp
    ELSE Goto(i, where) /\ UNCHANGED resp

\* create_simple_instance, had the simple path stored a build-status record
\* as the build-backed paths do
create_simple_instance_Tracked(i, base_image, shared_storage_size) ==
    /\ pc[i] = "none"
    /\ validate_base_image(base_image)
    /\ req' = [req EXCEPT ![i] = "simple"]
    /\ request' = [request EXCEPT
                       ![i].base_image = base_image,
                       ![i].shared_storage_size = shared_storage_size]
    /\ generate_access_token(i)
    /\ Created(i, "buildstatus")
    /\ tracker' = [tracker EXCEPT ![i] = [status |-> "queued", error |-> ""]]
    /\ Goto(i, "shared_read")
    /\ UNCHANGED <<shared, sharedSize, logsData, configData, avail, image, archive, cmBound,
                   buildLog, err, resp, del, poll, watch, faults>>

\* create_simple_instance, had base_image not been validated
create_simple_instance_Unvalidated(i, base_image, shared_storage_size) ==
    /\ pc[i] = "none"
    /\ req' = [req EXCEPT ![i] = "simple"]
    /\ request' = [request EXCEPT
                       ![i].base_image = base_image,
                       ![i].shared_storage_size = shared_storage_size]
    /\ generate_access_token(i)
    /\ Goto(i, "shared_read")
    /\ UNCHANGED <<orch, archive, cmBound, buildLog, err, resp, del, poll,
                   watch, createdLog, faults>>

\* POST /instances/simple up to its first orchestrator call; a request whose
\* base_image fails the validator of VSCodeServerRequest never reaches the
\* handler: the framework answers the validation error with 422
create_simple_instance(i, base_image, shared_storage_size) ==
    /\ pc[i] = "none"
    /\ req' = [req EXCEPT ![i] = "simple"]
    /\ request' = [request EXCEPT
                       ![i].base_image = base_image,
                       ![i].shared_storage_size = shared_storage_size]
    /\ IF validate_base_image(base_image)
       THEN /\ generate_access_token(i)
            /\ Goto(i, "shared_read")
            /\ UNCHANGED resp
       ELSE /\ Goto(i, "end")
            /\ resp' = [resp EXCEPT ![i] = [code |-> 422, status |-> "",
                                            devcontainer_image |-> ""]]
            /\ UNCHANGED cred
    /\ UNCHANGED <<orch, archive, cmBound, buildLog, err, del, poll, watch,
                   createdLog, faults>>

\* ensure_shared_storage_pvc_read, had an existing claim been patched to the
\* storage_size of the request
ensure_shared_storage_pvc_read_Resizing(i) ==
    /\ pc[i] = "shared_read"
    /\ \/ /\ UserOf(i) \in shared
          /\ NoFault
          /\ sharedSize' = [sharedSize EXCEPT
                               ![UserOf(i)] = request[i].shared_storage_size]
          /\ Goto(i, "config")
          /\ UNCHANGED <<err, resp>>
       \/ /\ UserOf(i) \notin shared
          /\ NoFault
          /\ Goto(i, "shared_create")
          /\ UNCHANGED <<sharedSize, err, resp>>
       \/ /\ Fault
          /\ Raise(i, "500: Failed to check shared storage PVC")
          /\ UNCHANGED sharedSize
    /\ UNCHANGED <<objs, shared, tracker, logsData, configData, avail, image,
                   req, archive, cred, request, cmBound, buildLog, del, poll,
                   watch, createdLog>>

\* ensure_shared_storage_pvc: read_namespaced_persistent_volume_claim
ensure_shared_storage_pvc_read(i) ==
    /\ pc[i] = "shared_read"
    /\ \/ /\ UserOf(i) \in shared
          /\ NoFault
          /\ Goto(i, "config")
          /\ UNCHANGED <<err, resp>>
       \/ /\ UserOf(i) \notin shared
          /\ NoFault
          /\ Goto(i, "shared_create")
          /\ UNCHANGED <<err, resp>>
       \/ /\ Fault
          /\ Raise(i, "500: Failed to check shared storage PVC")
    /\ UNCHANGED <<orch, req, archive, cred, request, cmBound, buildLog, del, poll,
                   watch, createdLog>>

\* ensure_shared_storage_pvc: create_namespaced_persistent_volume_claim
ensure_shared_storage_pvc_create(i) ==
    /\ pc[i] = "shared_create"
    /\ \/ /\ UserOf(i) \notin shared /\ NameAccepted(i, "shared")
          /\ NoFault
          /\ shared' = shared \cup {UserOf(i)}
          /\ sharedSize' = [sharedSize EXCEPT
                               ![UserOf(i)] = request[i].shared_storage_size]
          /\ Goto(i, "config")
          /\ UNCHANGED <<err, resp>>
       \/ /\ \/ UserOf(i) \in shared /\ NoFault     \* 409 AlreadyExists
             \/ ~NameAccepted(i, "shared") /\ NoFault   \* 422
             \/ Fault
          /\ Raise(i, "500: Failed to create shared storage PVC")
          /\ UNCHANGED <<shared, sharedSize, sharedSize>>
    /\ UNCHANGED <<objs, tracker, logsData, configData, avail, image, req, archive,
                   cred, request, cmBound, buildLog, del, poll, watch, createdLog>>

\* devcontainer_image, had the job handed on the name the image is pushed by
devcontainer_image_Pushed(i) ==
    IF req[i] = "simple" THEN "" ELSE push_image_name(i)

\* the devcontainer_image argument of create_configmap and create_deployment:
\* None (here "") from the simple handler, the builder's pull_image_name from
\* a job
devcontainer_image(i) == IF req[i] = "simple" THEN "" ELSE pull_image_name(i)

\* the devcontainer_config argument of create_configmap
devcontainer_config(i) ==
    CASE req[i] = "devcontainer" -> request[i].devcontainer_config
      [] req[i] = "workspace"    -> ArchiveDescriptor
      [] OTHER                   -> NoneValue

\* create_configmap: the data of <id>-config
config_data(i) ==
    [TOKEN |-> cred[i].access_token,
     BASE_IMAGE |-> IF req[i] = "simple" THEN request[i].base_image
                    ELSE DEFAULT_BASE_IMAGE,
     DEVCONTAINER_IMAGE |-> devcontainer_image(i),
     VSCODE_CONFIG |-> vscode_config(devcontainer_config(i))]

\* create_configmap calls .get on its devcontainer_config, which fails with
\* AttributeError when the uploaded JSON was not an object
NotADict(i) == pc[i] = "config" /\ devcontainer_config(i).type = "list"

\* create_configmap, create_workspace_pvc, create_deployment, create_service,
\* create_ingress_for_instance: one create call each
create_resource(i) ==
    /\ pc[i] \in CascadeKinds
    /\ \/ /\ NotADict(i)
          /\ NoFault
          /\ Raise(i, "'list' object has no attribute 'get'")
          /\ UNCHANGED <<objs, createdLog, configData, image>>
       \/ /\ ~NotADict(i)
          /\ ~Exists(i, pc[i]) /\ NameAccepted(i, pc[i])
          /\ NoFault
          /\ Created(i, pc[i])
          /\ configData' = IF pc[i] = "config"
                           THEN [configData EXCEPT ![i] = config_data(i)]
                           ELSE configData
          /\ image' = IF pc[i] = "workload"
                      THEN [image EXCEPT
                               ![i] = container_image(devcontainer_image(i))]
                      ELSE image
          /\ Proceed(i, AfterCreate(pc[i]))
          /\ UNCHANGED err
       \/ /\ ~NotADict(i)
          /\ \/ Exists(i, pc[i]) /\ NoFault        \* 409 AlreadyExists
             \/ ~NameAccepted(i, pc[i]) /\ NoFault  \* 422
             \/ Fault
          /\ Raise(i, "500: Failed to create " \o pc[i])
          /\ UNCHANGED <<objs, createdLog, configData, image>>
    /\ UNCHANGED <<shared, sharedSize, tracker, logsData, avail, req, archive, cred, request,
                   cmBound, buildLog, del, poll, watch>>

\* what the build-backed POST does once the build-status record is stored:
\* the job is handed to BackgroundTasks and the response is 201 Queued
Enqueued(i) ==
    [pc |-> "queued",
     resp |-> [code |-> 201, status |-> "Queued",
               devcontainer_image |-> pull_image_name(i)]]

\* what it does when the record could not be stored: 500, no job
NotEnqueued ==
    [pc |-> "end",
     resp |-> [code |-> 500, status |-> "", devcontainer_image |-> ""]]

\* the build-status record written by the POST
create_build_status(i) ==
    \/ /\ NameAccepted(i, "buildstatus")
       /\ NoFault
       /\ Created(i, "buildstatus")
       /\ tracker' = [tracker EXCEPT ![i] = [status |-> "queued", error |-> ""]]
       /\ Goto(i, Enqueued(i).pc)
       /\ resp' = [resp EXCEPT ![i] = Enqueued(i).resp]
    \/ /\ \/ ~NameAccepted(i, "buildstatus") /\ NoFault   \* 422
          \/ Fault
       /\ Goto(i, NotEnqueued.pc)
       /\ resp' = [resp EXCEPT ![i] = NotEnqueued.resp]
       /\ UNCHANGED <<objs, createdLog, tracker>>

\* POST /instances/devcontainer
create_devcontainer_instance(i, content, shared_storage_size) ==
    /\ pc[i] = "none"
    /\ req' = [req EXCEPT ![i] = "devcontainer"]
    /\ generate_access_token(i)
    /\ LET parsed == json_loads(content)
       IN  /\ request' = [request EXCEPT
                             ![i].shared_storage_size = shared_storage_size,
                             ![i].devcontainer_json = content,
                             ![i].devcontainer_config = parsed.value]
           /\ CASE parsed.exc = "" -> create_build_status(i)
                [] parsed.exc = "JSONDecodeError" ->
                     /\ Goto(i, "end")
                     /\ resp' = [resp EXCEPT
                                    ![i] = [code |-> 400, status |-> "",
                                            devcontainer_image |-> ""]]
                     /\ UNCHANGED <<objs, createdLog, tracker, faults>>
                [] OTHER ->          \* not caught: Internal Server Error
                     /\ Goto(i, "end")
                     /\ resp' = [resp EXCEPT
                                    ![i] = [code |-> 500, status |-> "",
                                            devcontainer_image |-> ""]]
                     /\ UNCHANGED <<objs, createdLog, tracker, faults>>
    /\ UNCHANGED <<shared, sharedSize, logsData, configData, avail, image, archive,
                   cmBound, buildLog, err, del, poll, watch>>

\* create_workspace_instance, had the handler opened the archive and answered
\* 400 to one that is no gzip tar or holds no devcontainer.json
create_workspace_instance_Validating(i, shared_storage_size) ==
    /\ pc[i] = "none"
    /\ req' = [req EXCEPT ![i] = "workspace"]
    /\ \E a \in Archives :
          /\ archive' = [archive EXCEPT ![i] = a]
          /\ IF a = "with_devcontainer"
             THEN create_build_status(i)
             ELSE /\ Goto(i, "end")
                  /\ resp' = [resp EXCEPT ![i] = [code |-> 400, status |-> "",
                                                  devcontainer_image |-> ""]]
                  /\ UNCHANGED <<objs, createdLog, tracker, faults>>
    /\ generate_access_token(i)
    /\ request' = [request EXCEPT
                       ![i].shared_storage_size = shared_storage_size]
    /\ UNCHANGED <<shared, sharedSize, logsData, configData, avail, image,
                   cmBound, buildLog, err, del, poll, watch>>

\* POST /instances/workspace: the archive is stored unread in build_config
create_workspace_instance(i, shared_storage_size) ==
    /\ pc[i] = "none"
    /\ req' = [req EXCEPT ![i] = "workspace"]
    /\ \E a \in Archives : archive' = [archive EXCEPT ![i] = a]
    /\ generate_access_token(i)
    /\ create_build_status(i)
    /\ request' = [request EXCEPT
                       ![i].shared_storage_size = shared_storage_size]
    /\ UNCHANGED <<shared, sharedSize, logsData, configData, avail, image,
                   cmBound, buildLog, err, del, poll, watch>>


\* ------------------------------------------------------ background job
\* patch_status, had the failed branch not stored str(e)
patch_status_NoError(i, s, e) ==
    \/ /\ cmBound[i] /\ Exists(i, "buildstatus")
       /\ NoFault
       /\ tracker' = [tracker EXCEPT ![i] = [status |-> s, error |-> ""]]
    \/ /\ ~(cmBound[i] /\ Exists(i, "buildstatus"))
       /\ NoFault
       /\ UNCHANGED tracker
    \/ /\ cmBound[i]
       /\ Fault
       /\ UNCHANGED tracker

\* status_cm.data["status"] = s [; data["error"] = e]; patch_namespaced_
\* config_map(body=status_cm) inside try/except: the write reaches the record
\* only if status_cm is bound, the record exists and the call succeeds
patch_status(i, s, e) ==
    \/ /\ cmBound[i] /\ Exists(i, "buildstatus")
       /\ NoFault
       /\ tracker' = [tracker EXCEPT ![i] = [status |-> s, error |-> e]]
    \/ /\ ~(cmBound[i] /\ Exists(i, "buildstatus"))
       /\ NoFault
       /\ UNCHANGED tracker
    \/ /\ cmBound[i]
       /\ Fault
       /\ UNCHANGED tracker

\* BackgroundTasks runs the job once the response has been sent
run_background_task(i) ==
    /\ pc[i] = "queued"
    /\ Goto(i, "read_status")
    /\ UNCHANGED <<orch, req, archive, cred, request, cmBound, buildLog, err, resp,
                   del, poll, watch, createdLog, faults>>

\* the first step of the job after the building write
AfterBuilding(r) == IF r = "workspace" THEN "extract" ELSE "probe"

\* status_cm = read_namespaced_config_map(<id>-build-status)
job_read_status(i) ==
    /\ pc[i] = "read_status"
    /\ \/ /\ Exists(i, "buildstatus")
          /\ NoFault
          /\ cmBound' = [cmBound EXCEPT ![i] = TRUE]
          /\ Goto(i, "patch_building")
       \/ /\ \/ ~Exists(i, "buildstatus") /\ NoFault
             \/ Fault
          /\ UNCHANGED cmBound
          /\ Goto(i, AfterBuilding(req[i]))
    /\ UNCHANGED <<orch, req, archive, cred, request, buildLog, err, resp, del, poll,
                   watch, createdLog>>

job_patch_building(i) ==
    /\ pc[i] = "patch_building"
    /\ patch_status(i, "building", "")
    /\ Goto(i, AfterBuilding(req[i]))
    /\ UNCHANGED <<objs, shared, sharedSize, logsData, configData, avail, image, req, archive,
                   cred, request, cmBound, buildLog, err, resp, del, poll, watch,
                   createdLog>>

\* job_extract_workspace, had the search for devcontainer.json been left out
job_extract_workspace_Unsearched(i) ==
    /\ pc[i] = "extract"
    /\ IF archive[i] = "not_gzip"
       THEN Raise(i, "not a gzip file")
       ELSE Goto(i, "probe") /\ UNCHANGED <<err, resp>>
    /\ UNCHANGED <<orch, req, archive, cred, request, cmBound, buildLog, del, poll,
                   watch, createdLog, faults>>

\* build_and_deploy_workspace: tarfile.open, extractall, os.walk
job_extract_workspace(i) ==
    /\ pc[i] = "extract"
    /\ CASE archive[i] = "with_devcontainer" ->
              Goto(i, "probe") /\ UNCHANGED <<err, resp>>
         [] archive[i] = "without_devcontainer" ->
              Raise(i, "No devcontainer.json found in workspace")
         [] OTHER ->
              Raise(i, "not a gzip file")
    /\ UNCHANGED <<orch, req, archive, cred, request, cmBound, buildLog, del, poll,
                   watch, createdLog, faults>>

\* build_devcontainer_image: docker version
job_docker_probe(i) ==
    /\ pc[i] = "probe"
    /\ \E reachable \in BOOLEAN :
          IF reachable
          THEN Goto(i, "build") /\ UNCHANGED <<err, resp>>
          ELSE Raise(i, "Docker daemon not accessible: Cannot connect to Docker daemon")
    /\ UNCHANGED <<orch, req, archive, cred, request, cmBound, buildLog, del, poll,
                   watch, createdLog, faults>>

\* build_devcontainer_image: devcontainer build, output drained into build_logs
job_build(i) ==
    /\ pc[i] = "build"
    /\ \E returncode \in {0, 1} :
          IF returncode = 0
          THEN /\ Goto(i, "push")
               /\ buildLog' = [buildLog EXCEPT ![i] = "output"]
               /\ UNCHANGED <<err, resp>>
          ELSE /\ Raise(i, "Build failed with return code 1")
               /\ UNCHANGED buildLog
    /\ UNCHANGED <<orch, req, archive, cred, request, cmBound, del, poll, watch,
                   createdLog, faults>>

\* the line build_devcontainer_image appends when no push succeeded
push_warning(i) ==
    "\nWARNING: Failed to push to registry, using local image: "
        \o push_image_name(i)

\* job_push, had a failed push been raised as an exception
job_push_Fatal(i) ==
    /\ pc[i] = "push"
    /\ \E push_success \in BOOLEAN :
          IF push_success
          THEN Goto(i, "store_logs") /\ UNCHANGED <<err, resp>>
          ELSE Raise(i, "Failed to push image")
    /\ UNCHANGED <<orch, req, archive, cred, request, cmBound, buildLog, del,
                   poll, watch, createdLog, faults>>

\* build_devcontainer_image: docker push (and the retagged push); a failure
\* only appends a warning
job_push(i) ==
    /\ pc[i] = "push"
    /\ \E push_success \in BOOLEAN :
          buildLog' = [buildLog EXCEPT ![i] =
                          IF push_success THEN @ ELSE @ \o push_warning(i)]
    /\ Goto(i, "store_logs")
    /\ UNCHANGED <<orch, req, archive, cred, request, cmBound, err, resp, del, poll,
                   watch, createdLog, faults>>

\* build_devcontainer_image: create <id>-build-logs, ApiException ignored
job_store_logs(i) ==
    /\ pc[i] = "store_logs"
    /\ \/ /\ ~Exists(i, "buildlogs") /\ NameAccepted(i, "buildlogs")
          /\ NoFault
          /\ Created(i, "buildlogs")
          /\ logsData' = [logsData EXCEPT ![i] = buildLog[i]]
       \/ /\ \/ Exists(i, "buildlogs") /\ NoFault
             \/ ~NameAccepted(i, "buildlogs") /\ NoFault
             \/ Fault
          /\ UNCHANGED <<objs, createdLog, logsData>>
    /\ Goto(i, "patch_deploying")
    /\ UNCHANGED <<shared, sharedSize, tracker, configData, avail, image, req, archive, cred, request,
                   cmBound, buildLog, err, resp, del, poll, watch>>

job_patch_deploying(i) ==
    /\ pc[i] = "patch_deploying"
    /\ patch_status(i, "deploying", "")
    /\ Goto(i, "shared_read")
    /\ UNCHANGED <<objs, shared, sharedSize, logsData, configData, avail, image, req, archive,
                   cred, request, cmBound, buildLog, err, resp, del, poll, watch,
                   createdLog>>

job_patch_completed(i) ==
    /\ pc[i] = "patch_completed"
    /\ patch_status(i, "completed", "")
    /\ Goto(i, "sleep")
    /\ UNCHANGED <<objs, shared, sharedSize, logsData, configData, avail, image, req, archive,
                   cred, request, cmBound, buildLog, err, resp, del, poll, watch,
                   createdLog>>

\* except Exception as e: status failed, error str(e)
job_patch_failed(i) ==
    /\ pc[i] = "patch_failed"
    /\ patch_status(i, "failed", err[i])
    /\ Goto(i, "sleep")
    /\ UNCHANGED <<objs, shared, sharedSize, logsData, configData, avail, image, req, archive,
                   cred, request, cmBound, buildLog, err, resp, del, poll, watch,
                   createdLog>>

\* finally: asyncio.sleep(300), then delete <id>-build-status, errors ignored
job_cleanup(i) ==
    /\ pc[i] = "sleep"
    /\ \/ /\ Exists(i, "buildstatus")
          /\ NoFault
          /\ Removed(i, "buildstatus")
       \/ /\ \/ ~Exists(i, "buildstatus") /\ NoFault
             \/ Fault
          /\ UNCHANGED orch
    /\ Goto(i, "end")
    /\ UNCHANGED <<req, archive, cred, request, cmBound, buildLog, err, resp, del,
                   poll, watch, createdLog>>


\* -------------------------------------------------------------- delete
\* DeleteOrder, had the user's shared claim been deleted with the instance
DeleteOrder_WithShared ==
    <<"ingress", "service", "workload", "config", "buildlogs", "workspace",
      "shared">>

\* DeleteOrder, had the config record been deleted first
DeleteOrder_ConfigFirst ==
    <<"config", "ingress", "service", "workload", "buildlogs", "workspace">>

\* DeleteOrder, had the config record been left out
DeleteOrder_KeepConfig ==
    <<"ingress", "service", "workload", "buildlogs", "workspace">>

\* DeleteOrder, had the workspace claim been deleted first
DeleteOrder_WorkspaceFirst ==
    <<"workspace", "ingress", "service", "workload", "config", "buildlogs">>

\* DeleteOrder, had the workload been deleted before its service and ingress
DeleteOrder_WorkloadFirst ==
    <<"workload", "service", "ingress", "config", "buildlogs", "workspace">>

\* the delete calls of delete_instance_resources, in program order
DeleteOrder ==
    <<"ingress", "service", "workload", "config", "buildlogs", "workspace">>

\* Swallowed, had the config-map deletes had no try/except of their own
Swallowed_None == {}

\* the config-map deletes sit in their own try/except ApiException: pass
Swallowed == {"config", "buildlogs"}

\* the create for the id is still at work
Running(i) == pc[i] \notin {"none", "sleep", "end"}

\* delete_instance, had the handler called delete_instance_resources without
\* looking at the status first
delete_instance_Unchecked(i, d) ==
    /\ resp[i] # NoResp
    /\ del[i][d].pc = "idle"
    /\ d > 1 => del[i][d - 1].pc # "idle"
    /\ LET ctx == IF Running(i) THEN "running" ELSE "quiet"
           s6  == /\ ~Exists(i, "ingress")
                  /\ {"service", "workload", "config", "workspace"} \subseteq objs[i]
           here == [IdleDelete EXCEPT !.ctx = ctx, !.s6 = s6]
       IN  /\ NoFault
           /\ del' = [del EXCEPT ![i][d] = [here EXCEPT !.pc = "deleting", !.k = 1]]
    /\ UNCHANGED <<orch, req, archive, cred, request, pc, cmBound, buildLog, err,
                   resp, poll, watch, createdLog>>

\* DELETE /instances/{id}: get_instance_status, 404 when the workload is absent.
\* Clients address an id once its POST has been answered.  The request notes
\* whether the create was still at work (ctx) and whether it met the instance
\* without its ingress but with the four other objects (s6).
delete_instance(i, d) ==
    /\ resp[i] # NoResp
    /\ del[i][d].pc = "idle"
    /\ d > 1 => del[i][d - 1].pc # "idle"
    /\ LET ctx == IF Running(i) THEN "running" ELSE "quiet"
           s6  == /\ ~Exists(i, "ingress")
                  /\ {"service", "workload", "config", "workspace"} \subseteq objs[i]
           here == [IdleDelete EXCEPT !.ctx = ctx, !.s6 = s6]
       IN  \/ /\ Fault
              /\ del' = [del EXCEPT ![i][d] = [here EXCEPT !.pc = "done", !.res = 500]]
           \/ /\ NoFault
              /\ get_instance_status(i) = "NotFound"
              /\ del' = [del EXCEPT ![i][d] = [here EXCEPT !.pc = "done", !.res = 404]]
           \/ /\ NoFault
              /\ get_instance_status(i) # "NotFound"
              /\ del' = [del EXCEPT ![i][d] = [here EXCEPT !.pc = "deleting", !.k = 1]]
    /\ UNCHANGED <<orch, req, archive, cred, request, pc, cmBound, buildLog, err, resp,
                   poll, watch, createdLog>>

\* the handler goes on to the next delete call, or returns "Deleted"
NextDelete(r) ==
    IF r.k < Len(DeleteOrder) THEN [r EXCEPT !.k = r.k + 1]
    ELSE [r EXCEPT !.pc = "done", !.k = 0, !.res = 200]

\* one delete call of delete_instance_resources
delete_instance_resources(i, d) ==
    /\ del[i][d].pc = "deleting"
    /\ LET r == del[i][d]
           k == DeleteOrder[r.k]
       IN  \/ /\ Exists(i, k)
              /\ NoFault
              /\ Removed(i, k)
              /\ del' = [del EXCEPT ![i][d] = NextDelete(r)]
           \/ /\ ~Exists(i, k)                 \* ApiException, status 404
              /\ NoFault
              /\ UNCHANGED orch
              /\ del' = [del EXCEPT ![i][d] =
                            IF k \in Swallowed THEN NextDelete(r)
                            ELSE [r EXCEPT !.pc = "done", !.k = 0, !.res = 200]]
           \/ /\ Fault                         \* ApiException, other status
              /\ UNCHANGED orch
              /\ del' = [del EXCEPT ![i][d] =
                            IF k \in Swallowed THEN NextDelete(r)
                            ELSE [r EXCEPT !.pc = "done", !.k = 0, !.res = 500]]
    /\ UNCHANGED <<req, archive, cred, request, pc, cmBound, buildLog, err, resp, poll,
                   watch, createdLog>>

\* -------------------------------------------------------- build status
\* GET /instances/{id}/build-status: read <id>-build-status; poll[i].last is
\* the last status the polling client was given
get_build_status(i) ==
    /\ resp[i] # NoResp
    /\ poll[i].pc = "idle"
    /\ \/ /\ Exists(i, "buildstatus")
          /\ NoFault
          /\ poll' = [poll EXCEPT ![i].last = tracker[i].status]
       \/ /\ ~Exists(i, "buildstatus")
          /\ NoFault
          /\ poll' = [poll EXCEPT ![i].pc = "read_config"]
       \/ /\ Fault                             \* re-raised: 500
          /\ UNCHANGED poll
    /\ UNCHANGED <<orch, req, archive, cred, request, pc, cmBound, buildLog, err, resp,
                   del, watch, createdLog>>

\* on 404: read <id>-config; found -> completed, anything else -> 404
get_build_status_config(i) ==
    /\ poll[i].pc = "read_config"
    /\ \/ /\ Exists(i, "config")
          /\ NoFault
          /\ poll' = [poll EXCEPT ![i] = [pc |-> "idle", last |-> "completed"]]
       \/ /\ \/ ~Exists(i, "config") /\ NoFault
             \/ Fault
          /\ poll' = [poll EXCEPT ![i].pc = "idle"]
    /\ UNCHANGED <<orch, req, archive, cred, request, pc, cmBound, buildLog, err, resp,
                   del, watch, createdLog>>

\* ------------------------------------------------------------ instance
\* the handler answers: the client is idle again with the response
Answer(i, r) == view' = [view EXCEPT ![i] = [r EXCEPT !.pc = "idle"]]

\* GET /instances/{id}: read <id>-config; 404 -> 404, other errors re-raised
get_instance(i) ==
    /\ resp[i] # NoResp
    /\ view[i].pc = "idle"
    /\ LET r == [IdleView EXCEPT !.op = "get_instance"]
       IN  \/ /\ Exists(i, "config")
              /\ NoFault
              /\ view' = [view EXCEPT ![i] =
                             [r EXCEPT
                                !.pc = "status",
                                !.url = instance_url(i, configData[i].TOKEN),
                                !.devcontainer_image =
                                    configData[i].DEVCONTAINER_IMAGE]]
           \/ /\ ~Exists(i, "config")
              /\ NoFault
              /\ Answer(i, [r EXCEPT !.code = 404])
           \/ /\ Fault
              /\ Answer(i, [r EXCEPT !.code = 500])
    /\ UNCHANGED <<orch, req, archive, cred, request, pc, cmBound, buildLog, err, resp,
                   del, poll, probe, createdLog>>

\* get_instance: status_str = get_instance_status(instance_id); its
\* HTTPException(500) is not caught by the handler
get_instance_read_status(i) ==
    /\ view[i].op = "get_instance"
    /\ view[i].pc = "status"
    /\ \/ /\ NoFault
          /\ view' = [view EXCEPT ![i].pc = "logs",
                                  ![i].status = get_instance_status(i)]
       \/ /\ Fault
          /\ Answer(i, [IdleView EXCEPT !.op = "get_instance", !.code = 500])
    /\ UNCHANGED <<orch, req, archive, cred, request, pc, cmBound, buildLog, err, resp,
                   del, poll, probe, createdLog>>

\* get_instance: read <id>-build-logs for build_logs_url inside a bare
\* except, then the response
get_instance_read_logs(i) ==
    /\ view[i].op = "get_instance"
    /\ view[i].pc = "logs"
    /\ \/ /\ Exists(i, "buildlogs")
          /\ NoFault
          /\ Answer(i, [view[i] EXCEPT !.code = 200, !.logs = "build_logs_url"])
       \/ /\ \/ ~Exists(i, "buildlogs") /\ NoFault
             \/ Fault
          /\ Answer(i, [view[i] EXCEPT !.code = 200])
    /\ UNCHANGED <<orch, req, archive, cred, request, pc, cmBound, buildLog, err, resp,
                   del, poll, probe, createdLog>>

\* GET /instances/{id}/build-logs: read <id>-build-logs; errors other than
\* 404 are re-raised
get_build_logs(i) ==
    /\ resp[i] # NoResp
    /\ view[i].pc = "idle"
    /\ LET r == [IdleView EXCEPT !.op = "get_build_logs"]
       IN  \/ /\ Exists(i, "buildlogs")
              /\ NoFault
              /\ view' = [view EXCEPT ![i] =
                             [r EXCEPT !.pc = "status", !.logs = logsData[i]]]
           \/ /\ ~Exists(i, "buildlogs")
              /\ NoFault
              /\ view' = [view EXCEPT ![i] = [r EXCEPT !.pc = "status_404"]]
           \/ /\ Fault
              /\ Answer(i, [r EXCEPT !.code = 500])
    /\ UNCHANGED <<orch, req, archive, cred, request, pc, cmBound, buildLog, err, resp,
                   del, poll, probe, createdLog>>

\* get_build_logs: status = get_instance_status(instance_id), in the try
\* block (record found) or in the 404 branch.  The local name status hides
\* the imported module status in the whole function, so the code operand of
\* the 404 branch, status.HTTP_404_NOT_FOUND, is an attribute of the string
\* "NotFound": it raises AttributeError and the request is answered 500.
get_build_logs_status(i) ==
    /\ view[i].op = "get_build_logs"
    /\ view[i].pc \in {"status", "status_404"}
    /\ LET r == view[i]
           s == get_instance_status(i)
       IN  \/ /\ Fault
              /\ Answer(i, [IdleView EXCEPT !.op = r.op, !.code = 500])
           \/ /\ NoFault
              /\ r.pc = "status"
              /\ Answer(i, [r EXCEPT !.code = 200, !.status = s])
           \/ /\ NoFault
              /\ r.pc = "status_404"
              /\ IF s = "NotFound"
                 THEN Answer(i, [r EXCEPT !.code = 500])
                 ELSE Answer(i, [r EXCEPT
                                   !.code = 200, !.status = s,
                                   !.logs = "No build logs available (simple instance)"])
    /\ UNCHANGED <<orch, req, archive, cred, request, pc, cmBound, buildLog, err, resp,
                   del, poll, probe, createdLog>>

\* get_instance_status called on its own, with the orchestrator's answer
\* as input
call_get_instance_status ==
    /\ probe.out = ""
    /\ probe' = [probe EXCEPT
                    !.out = deployment_status(probe.code, probe.available_replicas)]
    /\ UNCHANGED <<orch, req, archive, cred, request, pc, cmBound, buildLog, err, resp,
                   del, poll, view, createdLog, faults>>

\* ---------------------------------------------------------------- spec
Next ==
    \/ \E i \in Instances, b \in DefaultImages, s \in DefaultSizes :
          create_simple_instance(i, b, s)
    \/ \E i \in Instances, u \in PlainUploads, s \in DefaultSizes :
          create_devcontainer_instance(i, u, s)
    \/ \E i \in Instances, s \in DefaultSizes :
          create_workspace_instance(i, s)
    \/ \E i \in Instances : ensure_shared_storage_pvc_read(i)
    \/ \E i \in Instances : ensure_shared_storage_pvc_create(i)
    \/ \E i \in Instances : create_resource(i)
    \/ \E i \in Instances : run_background_task(i)
    \/ \E i \in Instances : job_read_status(i)
    \/ \E i \in Instances : job_patch_building(i)
    \/ \E i \in Instances : job_extract_workspace(i)
    \/ \E i \in Instances : job_docker_probe(i)
    \/ \E i \in Instances : job_build(i)
    \/ \E i \in Instances : job_push(i)
    \/ \E i \in Instances : job_store_logs(i)
    \/ \E i \in Instances : job_patch_deploying(i)
    \/ \E i \in Instances : job_patch_completed(i)
    \/ \E i \in Instances : job_patch_failed(i)
    \/ \E i \in Instances : job_cleanup(i)
    \/ \E i \in Instances : deployment_available(i)
    \/ \E i \in Instances, d \in Deleters : delete_instance(i, d)
    \/ \E i \in Instances, d \in Deleters : delete_instance_resources(i, d)
    \/ \E i \in Instances : get_build_status(i)
    \/ \E i \in Instances : get_build_status_config(i)

Spec == Init /\ [][Next]_vars

\* the creates, the background job, the deployment controller and the DELETEs,
\* without the status queries (which change nothing in the orchestrator)
LifecycleNext ==
    \/ \E i \in Instances, b \in DefaultImages, s \in DefaultSizes :
          create_simple_instance(i, b, s)
    \/ \E i \in Instances, u \in PlainUploads, s \in DefaultSizes :
          create_devcontainer_instance(i, u, s)
    \/ \E i \in Instances, s \in DefaultSizes :
          create_workspace_instance(i, s)
    \/ \E i \in Instances : ensure_shared_storage_pvc_read(i)
    \/ \E i \in Instances : ensure_shared_storage_pvc_create(i)
    \/ \E i \in Instances : create_resource(i)
    \/ \E i \in Instances : run_background_task(i)
    \/ \E i \in Instances : job_read_status(i)
    \/ \E i \in Instances : job_patch_building(i)
    \/ \E i \in Instances : job_extract_workspace(i)
    \/ \E i \in Instances : job_docker_probe(i)
    \/ \E i \in Instances : job_build(i)
    \/ \E i \in Instances : job_push(i)
    \/ \E i \in Instances : job_store_logs(i)
    \/ \E i \in Instances : job_patch_deploying(i)
    \/ \E i \in Instances : job_patch_completed(i)
    \/ \E i \in Instances : job_patch_failed(i)
    \/ \E i \in Instances : job_cleanup(i)
    \/ \E i \in Instances : deployment_available(i)
    \/ \E i \in Instances, d \in Deleters : delete_instance(i, d)
    \/ \E i \in Instances, d \in Deleters : delete_instance_resources(i, d)

Lifecycle == Init /\ [][LifecycleNext]_vars

\* the lifecycle seen by a client of GET /instances/{id} and GET /build-logs
ViewNext ==
    \/ \E i \in Instances, b \in DefaultImages, s \in DefaultSizes :
          create_simple_instance(i, b, s)
    \/ \E i \in Instances, u \in PlainUploads, s \in DefaultSizes :
          create_devcontainer_instance(i, u, s)
    \/ \E i \in Instances, s \in DefaultSizes :
          create_workspace_instance(i, s)
    \/ \E i \in Instances : ensure_shared_storage_pvc_read(i)
    \/ \E i \in Instances : ensure_shared_storage_pvc_create(i)
    \/ \E i \in Instances : create_resource(i)
    \/ \E i \in Instances : run_background_task(i)
    \/ \E i \in Instances : job_read_status(i)
    \/ \E i \in Instances : job_patch_building(i)
    \/ \E i \in Instances : job_extract_workspace(i)
    \/ \E i \in Instances : job_docker_probe(i)
    \/ \E i \in Instances : job_build(i)
    \/ \E i \in Instances : job_push(i)
    \/ \E i \in Instances : job_store_logs(i)
    \/ \E i \in Instances : job_patch_deploying(i)
    \/ \E i \in Instances : job_patch_completed(i)
    \/ \E i \in Instances : job_patch_failed(i)
    \/ \E i \in Instances : job_cleanup(i)
    \/ \E i \in Instances : deployment_available(i)
    \/ \E i \in Instances, d \in 1..MaxViewDeletes : delete_instance(i, d)
    \/ \E i \in Instances, d \in 1..MaxViewDeletes : delete_instance_resources(i, d)
    \/ \E i \in Instances : get_instance(i)
    \/ \E i \in Instances : get_instance_read_status(i)
    \/ \E i \in Instances : get_instance_read_logs(i)
    \/ \E i \in Instances : get_build_logs(i)
    \/ \E i \in Instances : get_build_logs_status(i)

ViewSpec == Init /\ [][ViewNext]_vars

\* the creates under every kind of request body, with the client of
\* GET /instances/{id}; no DELETE
IntakeNext ==
    \/ \E i \in Instances, b \in BaseImages, s \in DefaultSizes :
          create_simple_instance(i, b, s)
    \/ \E i \in Instances, u \in Uploads, s \in DefaultSizes :
          create_devcontainer_instance(i, u, s)
    \/ \E i \in Instances, s \in DefaultSizes :
          create_workspace_instance(i, s)
    \/ \E i \in Instances : ensure_shared_storage_pvc_read(i)
    \/ \E i \in Instances : ensure_shared_storage_pvc_create(i)
    \/ \E i \in Instances : create_resource(i)
    \/ \E i \in Instances : run_background_task(i)
    \/ \E i \in Instances : job_read_status(i)
    \/ \E i \in Instances : job_patch_building(i)
    \/ \E i \in Instances : job_extract_workspace(i)
    \/ \E i \in Instances : job_docker_probe(i)
    \/ \E i \in Instances : job_build(i)
    \/ \E i \in Instances : job_push(i)
    \/ \E i \in Instances : job_store_logs(i)
    \/ \E i \in Instances : job_patch_deploying(i)
    \/ \E i \in Instances : job_patch_completed(i)
    \/ \E i \in Instances : job_patch_failed(i)
    \/ \E i \in Instances : job_cleanup(i)
    \/ \E i \in Instances : deployment_available(i)
    \/ \E i \in Instances : get_instance(i)
    \/ \E i \in Instances : get_instance_read_status(i)
    \/ \E i \in Instances : get_instance_read_logs(i)

IntakeSpec == Init /\ [][IntakeNext]_vars

\* the creates for a user_id with a dot: the orchestrator refuses the name
\* of the service, so no cascade is ever complete
NamingNext ==
    \/ \E i \in OtherInstances, b \in DefaultImages, s \in DefaultSizes :
          create_simple_instance(i, b, s)
    \/ \E i \in OtherInstances, u \in PlainUploads, s \in DefaultSizes :
          create_devcontainer_instance(i, u, s)
    \/ \E i \in OtherInstances, s \in DefaultSizes :
          create_workspace_instance(i, s)
    \/ \E i \in OtherInstances : ensure_shared_storage_pvc_read(i)
    \/ \E i \in OtherInstances : ensure_shared_storage_pvc_create(i)
    \/ \E i \in OtherInstances : create_resource(i)
    \/ \E i \in OtherInstances : run_background_task(i)
    \/ \E i \in OtherInstances : job_read_status(i)
    \/ \E i \in OtherInstances : job_patch_building(i)
    \/ \E i \in OtherInstances : job_extract_workspace(i)
    \/ \E i \in OtherInstances : job_docker_probe(i)
    \/ \E i \in OtherInstances : job_build(i)
    \/ \E i \in OtherInstances : job_push(i)
    \/ \E i \in OtherInstances : job_store_logs(i)
    \/ \E i \in OtherInstances : job_patch_deploying(i)
    \/ \E i \in OtherInstances : job_patch_failed(i)
    \/ \E i \in OtherInstances : job_cleanup(i)
    \/ \E i \in OtherInstances : deployment_available(i)

NamingSpec == Init /\ [][NamingNext]_vars

\* two creates for the same user_id, each with its own shared_storage_size,
\* interleaved at every orchestrator call, as when the API runs in more than
\* one process (within one process a cascade has no await and runs through
\* without another create in between)
Siblings == Instances \cup SiblingInstances

SharingNext ==
    \/ \E i \in Siblings, b \in DefaultImages, s \in SharedSizes :
          create_simple_instance(i, b, s)
    \/ \E i \in Siblings, u \in PlainUploads, s \in SharedSizes :
          create_devcontainer_instance(i, u, s)
    \/ \E i \in Siblings : ensure_shared_storage_pvc_read(i)
    \/ \E i \in Siblings : ensure_shared_storage_pvc_create(i)
    \/ \E i \in Siblings : create_resource(i)
    \/ \E i \in Siblings : run_background_task(i)
    \/ \E i \in Siblings : job_read_status(i)
    \/ \E i \in Siblings : job_patch_building(i)
    \/ \E i \in Siblings : job_docker_probe(i)
    \/ \E i \in Siblings : job_build(i)
    \/ \E i \in Siblings : job_push(i)
    \/ \E i \in Siblings : job_store_logs(i)
    \/ \E i \in Siblings : job_patch_deploying(i)
    \/ \E i \in Siblings : job_patch_completed(i)
    \/ \E i \in Siblings : job_patch_failed(i)
    \/ \E i \in Siblings : job_cleanup(i)

SharingSpec == Init /\ [][SharingNext]_vars

\* the sibling has been built and deployed from DescriptorPlain and its job
\* is in the sleep before the cleanup; nothing has been requested for the
\* other ids
SiblingDeployed ==
    LET t == CHOOSE t \in AccessTokens : TRUE
        At(i, there, nowhere) == IF i \in SiblingInstances THEN there ELSE nowhere
    IN  /\ objs = [i \in AllInstances |-> At(i, Kinds, {})]
        /\ shared = Users
        /\ sharedSize = [u \in AllUsers |->
                            IF u \in shared THEN DEFAULT_SHARED_STORAGE_SIZE ELSE ""]
        /\ tracker = [i \in AllInstances |->
                         At(i, [status |-> "completed", error |-> ""], NoTracker)]
        /\ logsData = [i \in AllInstances |-> At(i, "output", "")]
        /\ avail = [i \in AllInstances |-> 0]
        /\ req = [i \in AllInstances |-> At(i, "devcontainer", "none")]
        /\ archive = [i \in AllInstances |-> ""]
        /\ pc = [i \in AllInstances |-> At(i, "sleep", "none")]
        /\ cmBound = [i \in AllInstances |-> At(i, TRUE, FALSE)]
        /\ buildLog = [i \in AllInstances |-> At(i, "output", "")]
        /\ err = [i \in AllInstances |-> ""]
        /\ resp = [i \in AllInstances |-> At(i, Enqueued(i).resp, NoResp)]
        /\ del = [i \in AllInstances |-> [d \in Deleters |-> IdleDelete]]
        /\ poll = [i \in AllInstances |-> [pc |-> "idle", last |-> "none"]]
        /\ createdLog =
              [i \in AllInstances |->
                  At(i, <<"buildstatus", "buildlogs", "config", "workspace",
                          "workload", "service", "ingress">>, <<>>)]
        /\ faults = 0
        /\ configData =
              [i \in AllInstances |->
                  At(i, [TOKEN |-> t, BASE_IMAGE |-> DEFAULT_BASE_IMAGE,
                         DEVCONTAINER_IMAGE |-> pull_image_name(i),
                         VSCODE_CONFIG |->
                             vscode_config(json_loads(DescriptorPlain).value)],
                     NoConfig)]
        /\ cred = [i \in AllInstances |->
                      At(i, [access_token |-> t, url |-> instance_url(i, t)],
                         NoCred)]
        /\ view = [i \in AllInstances |-> IdleView]
        /\ request =
              [i \in AllInstances |->
                  At(i, [base_image |-> "",
                         shared_storage_size |-> DEFAULT_SHARED_STORAGE_SIZE,
                         devcontainer_json |-> DescriptorPlain,
                         devcontainer_config |->
                             json_loads(DescriptorPlain).value],
                     NoRequest)]
        /\ image = [i \in AllInstances |-> At(i, pull_image_name(i), "")]

FrameInit == SiblingDeployed /\ probe = NoProbe

\* the creates, the job, one DELETE and the queries of an instance and of
\* its build logs while the deployed sibling of the same user is there, and
\* the sibling's own cleanup
FrameNext ==
    \/ \E i \in Instances, b \in DefaultImages, s \in DefaultSizes :
          create_simple_instance(i, b, s)
    \/ \E i \in Instances, u \in PlainUploads, s \in DefaultSizes :
          create_devcontainer_instance(i, u, s)
    \/ \E i \in Instances, s \in DefaultSizes :
          create_workspace_instance(i, s)
    \/ \E i \in Instances : ensure_shared_storage_pvc_read(i)
    \/ \E i \in Instances : create_resource(i)
    \/ \E i \in Instances : run_background_task(i)
    \/ \E i \in Instances : job_read_status(i)
    \/ \E i \in Instances : job_patch_building(i)
    \/ \E i \in Instances : job_extract_workspace(i)
    \/ \E i \in Instances : job_docker_probe(i)
    \/ \E i \in Instances : job_build(i)
    \/ \E i \in Instances : job_push(i)
    \/ \E i \in Instances : job_store_logs(i)
    \/ \E i \in Instances : job_patch_deploying(i)
    \/ \E i \in Instances : job_patch_completed(i)
    \/ \E i \in Instances : job_patch_failed(i)
    \/ \E i \in Siblings : job_cleanup(i)
    \/ \E i \in Instances : deployment_available(i)
    \/ \E i \in Instances : delete_instance(i, 1)
    \/ \E i \in Instances : delete_instance_resources(i, 1)
    \/ \E i \in Instances : get_instance(i)
    \/ \E i \in Instances : get_instance_read_status(i)
    \/ \E i \in Instances : get_instance_read_logs(i)
    \/ \E i \in Instances : get_build_logs(i)
    \/ \E i \in Instances : get_build_logs_status(i)

FrameSpec == FrameInit /\ [][FrameNext]_vars

\* the creates and the background jobs; a job that has been handed to
\* BackgroundTasks is run by the event loop, its subprocesses terminate and
\* its orchestrator calls are answered, so each of its steps is taken in the
\* end
JobStep(i) ==
    \/ run_background_task(i)
    \/ job_read_status(i)
    \/ job_patch_building(i)
    \/ job_extract_workspace(i)
    \/ job_docker_probe(i)
    \/ job_build(i)
    \/ job_push(i)
    \/ job_store_logs(i)
    \/ job_patch_deploying(i)
    \/ ensure_shared_storage_pvc_read(i)
    \/ ensure_shared_storage_pvc_create(i)
    \/ create_resource(i)
    \/ job_patch_completed(i)
    \/ job_patch_failed(i)
    \/ job_cleanup(i)

JobsNext ==
    \/ \E i \in Instances, b \in DefaultImages, s \in DefaultSizes :
          create_simple_instance(i, b, s)
    \/ \E i \in Instances, u \in PlainUploads, s \in DefaultSizes :
          create_devcontainer_instance(i, u, s)
    \/ \E i \in Instances, s \in DefaultSizes :
          create_workspace_instance(i, s)
    \/ \E i \in Instances : JobStep(i)
    \/ \E i \in Instances : deployment_available(i)

FairJobs ==
    /\ Init
    /\ [][JobsNext]_vars
    /\ \A i \in Instances : WF_vars(JobStep(i))

\* get_instance_status on every answer of the orchestrator
Replicas == {NoneReplicas} \cup 0..MaxReplicas

StatusInit ==
    /\ Dormant
    /\ probe \in [code : ApiStatuses, available_replicas : Replicas, out : {""}]

StatusNext == call_get_instance_status

StatusSpec == StatusInit /\ [][StatusNext]_vars

TypeOK ==
    /\ objs \in [AllInstances -> SUBSET Kinds]
    /\ shared \subseteq AllUsers
    /\ sharedSize \in [AllUsers -> SharedSizes \cup {""}]
    /\ faults \in 0..MaxFaults


\* -------------------------------------------------------------- claims
IsPrefix(s, t) == Len(s) <= Len(t) /\ \A n \in 1..Len(s) : s[n] = t[n]

CreateOrder == <<"config", "workspace", "workload", "service", "ingress">>

\* the cascade objects created for i so far, in order of creation
CascadeLog(i) == SelectSeq(createdLog[i], LAMBDA k : k \in CascadeKinds)

\* the DELETE requests that have been answered, once no other DELETE on the
\* same instance is still at work
DoneDeletes ==
    {p \in Instances \X Deleters :
        /\ del[p[1]][p[2]].pc = "done"
        /\ \A d \in Deleters : del[p[1]][d].pc # "deleting"}

\* C1: the objects of an instance are created in the order config, workspace
\* claim, workload, service, ingress: what has been created so far is always
\* a prefix of that order, so a later object is only ever created after every
\* earlier one was created successfully.
C1_CreationOrder == \A i \in Instances : IsPrefix(CascadeLog(i), CreateOrder)

C1_Witness ==
    \E i \in Instances : req[i] \in BuildKinds /\ CascadeLog(i) = CreateOrder

\* C2: a DELETE on an instance whose ingress is gone while workload, service,
\* config record and workspace claim exist, and which returns 200, has removed
\* all the remaining objects.
C2_DeleteToleratesNotFound ==
    \A p \in DoneDeletes :
        LET i == p[1]
            r == del[i][p[2]]
        IN  (r.s6 /\ r.ctx = "quiet" /\ r.res = 200)
                => objs[i] \cap CascadeKinds = {}

\* C3: after a DELETE that returned 200, no object created for the instance
\* remains: no cascade object, no build-status record, no build-logs record
\* (stated for the runs in which the orchestrator rejected no call).
C3_NothingRemainsAfterDelete ==
    \A p \in DoneDeletes :
        LET i == p[1]
            r == del[i][p[2]]
        IN  (faults = 0 /\ r.ctx = "quiet" /\ r.res = 200) => objs[i] = {}

\* C4: the statuses seen by repeated GET /build-status never go back and never
\* leave failed or completed for another status.
StatusRank(s) ==
    CASE s = "none" -> 0
      [] s = "queued" -> 1
      [] s = "building" -> 2
      [] s = "deploying" -> 3
      [] OTHER -> 4

AllowedObservation(a, b) ==
    \/ a = b
    \/ a \notin {"completed", "failed"} /\ StatusRank(a) < StatusRank(b)

C4_StatusMonotone ==
    [][\A i \in Instances : AllowedObservation(poll[i].last, poll'[i].last)]_vars

\* C5 (as claimed): when the image build fails, the build-status record ends
\* in failed with a non-empty error, and no cascade object is ever created.
BuildFailed(i) ==
    err[i] \in {"Docker daemon not accessible: Cannot connect to Docker daemon",
                "Build failed with return code 1"}

C6_DeleteReclaimsPartial ==
    \A p \in DoneDeletes :
        LET i == p[1]
            r == del[i][p[2]]
        IN  (r.ctx = "quiet" /\ err[i] # "" /\ Len(CascadeLog(i)) \in 1..4)
                => r.res = 200 /\ objs[i] \cap CascadeKinds = {}

\* C7: a DELETE accepted (200) while the background job was still running
\* abandons the build: once the job has finished, the tracker reads failed
\* and no workload, service or ingress of the instance is left (stated for the
\* runs in which the orchestrator rejected no call).
C7_DeleteAbandonsBuild ==
    \A p \in DoneDeletes :
        LET i == p[1]
            r == del[i][p[2]]
        IN  (faults = 0 /\ r.ctx = "running" /\ r.res = 200 /\ pc[i] = "sleep")
                => /\ tracker[i].status = "failed"
                   /\ objs[i] \cap {"workload", "service", "ingress"} = {}

\* C8: GET /build-status answers completed only for an instance whose five
\* objects were all created.
C8_CompletedOnlyIfCascadeDone ==
    \A i \in Instances : poll[i].last = "completed" => CascadeLog(i) = CreateOrder

\* C9: a build-backed POST has stored the record as queued and answered
\* 201 Queued before the job takes its first step, and nothing the job does
\* afterwards changes that response.
JobPcs == {"read_status", "patch_building", "extract", "probe", "build", "push",
           "store_logs", "patch_deploying", "shared_read", "shared_create",
           "patch_completed", "patch_failed", "sleep"} \cup CascadeKinds

C9_QueuedFirst ==
    \A i \in Instances :
        /\ (req[i] \in BuildKinds /\ pc[i] = "queued") =>
              /\ resp[i] = Enqueued(i).resp
              /\ Exists(i, "buildstatus") /\ tracker[i].status = "queued"
        /\ (req[i] \in BuildKinds /\ (pc[i] \in JobPcs \/ err[i] # "")) =>
              /\ resp[i] = Enqueued(i).resp
              /\ createdLog[i] # <<>> /\ createdLog[i][1] = "buildstatus"

C9_ResponseIsFinal ==
    \A i \in Instances : resp[i] # NoResp => resp'[i] = resp[i]

C9_QueuedResponse == []C9_QueuedFirst /\ [][C9_ResponseIsFinal]_vars

C9_Witness ==
    \E i \in Instances :
        /\ req[i] \in BuildKinds /\ pc[i] = "sleep" /\ err[i] # ""
        /\ tracker[i].status = "failed"
        /\ resp[i] = Enqueued(i).resp

\* C10: once the shared claim of a user exists, no step of the service
\* removes it.
C10_SharedClaimKept == [][\A u \in Users : u \in shared => u \in shared']_vars

C10_Witness ==
    \E p \in DoneDeletes :
        /\ del[p[1]][p[2]].res = 200
        /\ objs[p[1]] \cap CascadeKinds = {}
        /\ CascadeLog(p[1]) = CreateOrder
        /\ UserOf(p[1]) \in shared

\* a step in which object k of instance i is deleted
Deletes(i, k) == k \in objs[i] /\ k \notin objs'[i]

\* the deletion order C11 claims
ClaimedDeleteOrder ==
    <<"ingress", "service", "workload", "config", "buildlogs", "workspace">>

EarlierLeft(i, n) ==
    {ClaimedDeleteOrder[m] : m \in 1..(n - 1)} \cap objs[i]

\* C11: deletions happen in the order ingress, service, workload,
\* config record, build-logs record, workspace claim: whenever an object is
\* deleted, every object earlier in this list is gone (deleted or absent).
C11_DeleteInOrder ==
    [][\A i \in Instances : \A n \in 1..Len(ClaimedDeleteOrder) :
          Deletes(i, ClaimedDeleteOrder[n]) => EarlierLeft(i, n) = {}]_vars

\* the objects created after CreateOrder[n] that instance i still has
LaterLeft(i, n) ==
    {CreateOrder[m] : m \in (n + 1)..Len(CreateOrder)} \cap objs[i]

\* C12 (as claimed): deletion is the exact reverse of the creation order
\* config, workspace claim, workload, service, ingress: an object is deleted
\* only once every object created after it is gone.
C12_ReverseOfCreation ==
    [][\A i \in Instances : \A n \in 1..Len(CreateOrder) :
          Deletes(i, CreateOrder[n]) => LaterLeft(i, n) = {}]_vars

\* C12 (amended): deletion reverses the creation order for ingress, service
\* and workload, but the config record is deleted before the workspace claim:
\* the config record goes while the workspace claim is still there, and every
\* other object only once all objects created after it are gone.
C12_ReverseExceptConfig ==
    [][\A i \in Instances : \A n \in 1..Len(CreateOrder) :
          Deletes(i, CreateOrder[n]) =>
              LaterLeft(i, n) = IF CreateOrder[n] = "config" THEN {"workspace"}
                                ELSE {}]_vars

C12_Witness ==
    \E p \in DoneDeletes :
        /\ del[p[1]][p[2]].res = 200
        /\ req[p[1]] = "simple"
        /\ CascadeLog(p[1]) = CreateOrder
        /\ objs[p[1]] = {}

\* what GET /build-status answers: a status (200), or 404, which leaves the
\* client with the status it had
Answered(i, s) == poll'[i] = [pc |-> "idle", last |-> s]

Answered404(i) == poll'[i] = [pc |-> "idle", last |-> poll[i].last]

\* the first read of the handler: the stored status if the record is there,
\* else on to the config record
FirstRead(i) ==
    (poll[i].pc = "idle" /\ poll'[i] # poll[i]) =>
        IF Exists(i, "buildstatus") THEN Answered(i, tracker[i].status)
        ELSE poll'[i] = [poll[i] EXCEPT !.pc = "read_config"]

\* C13: GET /build-status returns the stored status when the
\* build-status record exists; when it is missing but the config record
\* exists it returns completed; when both are missing it returns 404.
C13_BuildStatusAnswer ==
    [][\A i \in Instances :
          /\ FirstRead(i)
          /\ (poll[i].pc = "read_config" /\ poll'[i] # poll[i]) =>
                IF Exists(i, "config") THEN Answered(i, "completed")
                ELSE Answered404(i)]_vars


\* C14: the job deletes its build-status record only after a terminal state
\* has been written to it, and a job that has ended has deleted its record.
C14_DeletedOnlyTerminal ==
    \A i \in Instances :
        Deletes(i, "buildstatus") => tracker[i].status \in {"completed", "failed"}

C14_DeletedAtEnd ==
    \A i \in Instances : pc[i] = "end" => ~Exists(i, "buildstatus")

C14_TrackerCleanup == []C14_DeletedAtEnd /\ [][C14_DeletedOnlyTerminal]_vars

\* the kinds of instance-named objects created for i so far
Made(i) == {createdLog[i][n] : n \in 1..Len(createdLog[i])}

\* the create for i went through: 201 Creating, or the job past its cascade
CreateSucceeded(i) ==
    \/ req[i] = "simple" /\ resp[i] = [NoResp EXCEPT !.code = 201, !.status = "Creating"]
    \/ req[i] \in BuildKinds /\ pc[i] \in {"sleep", "end"} /\ err[i] = ""
                              /\ resp[i] = Enqueued(i).resp

\* C18: the instance-named objects ever created for an instance are the
\* config record, workspace claim, workload, service and ingress, and for a
\* build-backed instance also the build-status and build-logs records; each
\* at most once, nothing else, and a simple instance never gets a build-status
\* or build-logs record.  A create that went through has made all of them
\* (the build-logs record if the orchestrator accepted its creation).
C18_ObjectsCreated ==
    \A i \in Instances :
        /\ Cardinality(Made(i)) = Len(createdLog[i])
        /\ req[i] = "none" => Made(i) = {}
        /\ req[i] = "simple" => Made(i) \subseteq CascadeKinds
        /\ req[i] \in BuildKinds =>
              Made(i) \subseteq CascadeKinds \cup {"buildstatus", "buildlogs"}
        /\ CreateSucceeded(i) =>
              /\ CascadeKinds \subseteq Made(i)
              /\ req[i] \in BuildKinds => "buildstatus" \in Made(i)
              /\ (req[i] \in BuildKinds /\ faults = 0) => "buildlogs" \in Made(i)

C18_Witness ==
    \E i \in Instances :
        /\ req[i] \in BuildKinds /\ CreateSucceeded(i)
        /\ Made(i) = CascadeKinds \cup {"buildstatus", "buildlogs"}

\* a step in which a handler reads the status of instance i as s
ObservesStatus(i, s) ==
    /\ view[i].pc \in {"status", "status_404"}
    /\ view'[i].status = s

\* C15: whenever GET /instances/{id} or GET /build-logs reads an instance as
\* Running, at that moment its config record exists and its workload reports
\* at least one available replica, whatever creates and deletes run beside.
C15_RunningIsBacked ==
    [][\A i \in Instances :
          ObservesStatus(i, "Running") =>
              /\ Exists(i, "config")
              /\ Exists(i, "workload") /\ avail[i] >= 1]_vars

C15_Witness ==
    \E i \in Instances :
        /\ view[i].op = "get_build_logs" /\ view[i].pc = "idle"
        /\ view[i].code = 200 /\ view[i].status = "Running"
        /\ del[i][1].pc = "deleting"

\* C16: get_instance_status returns Running iff the workload exists and
\* reports at least one available replica, Pending iff it exists with
\* available_replicas absent or 0, NotFound iff the workload is absent (404).
C16_StatusTable ==
    probe.out # "" =>
        LET exists == probe.code = 200
            r == probe.available_replicas
        IN  /\ probe.out = "Running" <=> (exists /\ r # NoneReplicas /\ r >= 1)
            /\ probe.out = "Pending" <=> (exists /\ (r = NoneReplicas \/ r = 0))
            /\ probe.out = "NotFound" <=> probe.code = 404

C16_Witness ==
    /\ probe.code = 200 /\ probe.available_replicas = NoneReplicas
    /\ probe.out = "Pending"

\* GET /instances/{id} is answered or goes on to its second call
FirstCallOfGet(i) ==
    /\ view[i].pc = "idle"
    /\ view'[i] # view[i]
    /\ view'[i].op = "get_instance"

\* C17: GET /instances/{id} for a build-backed instance whose build-status
\* record reads queued, building or deploying returns a URL, and the URL
\* carries the token of the POST response (stated for the runs in which the
\* orchestrator rejected no call).
C17_UrlWhileBuilding ==
    [][\A i \in Instances :
          (/\ FirstCallOfGet(i)
           /\ req[i] \in BuildKinds
           /\ tracker[i].status \in {"queued", "building", "deploying"}
           /\ faults' = 0)
              => view'[i].code # 404 /\ view'[i].url = cred[i].url]_vars

\* C19: POST /instances/simple answers 201 Creating with the url
\* https://<BASE_DOMAIN>/instances/<id>?tkn=<access_token>; the DELETE that
\* follows answers 200; every GET /instances/{id} after that answers 404
\* (stated for the runs in which the orchestrator rejected no call).
SimpleCreated(i) == req[i] = "simple" /\ resp[i].code = 201

C19_Post ==
    \A i \in Instances :
        SimpleCreated(i) =>
            /\ resp[i].status = "Creating"
            /\ cred[i].access_token \in AccessTokens
            /\ cred[i].url = "https://" \o BASE_DOMAIN \o "/instances/" \o i
                                \o "?tkn=" \o cred[i].access_token

C19_Delete ==
    \A i \in Instances :
        (SimpleCreated(i) /\ faults = 0 /\ <<i, 1>> \in DoneDeletes) =>
            del[i][1].res = 200 /\ ~Exists(i, "config")

C19_Get ==
    \A i \in Instances :
        (/\ SimpleCreated(i) /\ faults' = 0 /\ <<i, 1>> \in DoneDeletes
         /\ FirstCallOfGet(i))
            => view'[i].code = 404 /\ view'[i].pc = "idle"

C19_SimpleScenario == [](C19_Post /\ C19_Delete) /\ [][C19_Get]_vars

C19_Witness ==
    \E i \in Instances :
        /\ SimpleCreated(i) /\ faults = 0
        /\ del[i][1].pc = "done" /\ del[i][1].res = 200
        /\ view[i] = [IdleView EXCEPT !.op = "get_instance", !.code = 404]

\* C20: GET /build-logs answers 404 when neither the build-logs record nor
\* the workload exists.
C20_BuildLogs404 ==
    [][\A i \in Instances :
          (/\ view[i].op = "get_build_logs" /\ view[i].pc = "status_404"
           /\ ~Exists(i, "workload")
           /\ faults' = faults
           /\ view'[i] # view[i])
              => view'[i].code = 404]_vars

\* the values the status field of a VSCodeServerResponse is documented to take
ResponseStatuses ==
    {"Creating", "Queued", "Building", "Deploying", "Running", "Pending",
     "Deleted"}

\* C21: the status of every VSCodeServerResponse, from a POST or from
\* GET /instances/{id}, is one of Creating, Queued, Building, Deploying,
\* Running, Pending, Deleted, also when the config record exists and the
\* workload does not.
C21_StatusEnum ==
    \A i \in Instances :
        faults = 0 =>
            /\ resp[i].code = 201 => resp[i].status \in ResponseStatuses
            /\ (view[i].op = "get_instance" /\ view[i].pc = "idle"
                /\ view[i].code = 200)
                   => view[i].status \in ResponseStatuses

\* C23: a POST /instances/workspace whose upload is not a gzip tar archive,
\* or holds no devcontainer.json, is answered 400; no build-status record is
\* stored and no job is scheduled.
C23_ArchiveRejected ==
    \A i \in Instances :
        (/\ req[i] = "workspace" /\ archive[i] # "with_devcontainer"
         /\ faults = 0)
            => /\ resp[i].code = 400
               /\ createdLog[i] = <<>>
               /\ pc[i] = "end"

\* the workspace POST carried an archive the job cannot build from
BadArchive(i) == req[i] = "workspace" /\ archive[i] # "with_devcontainer"

C23_PostAccepts ==
    \A i \in Instances, s \in SharedSizes :
        (create_workspace_instance(i, s) /\ faults' = faults) =>
            /\ resp'[i] = Enqueued(i).resp
            /\ Exists(i, "buildstatus")' /\ tracker'[i].status = "queued"
            /\ pc'[i] = "queued"

C23_JobRefuses ==
    \A i \in Instances :
        BadArchive(i) =>
            /\ resp[i].code \in {201, 500}
            /\ resp[i].code = 500 <=> (pc[i] = "end" /\ createdLog[i] = <<>>)
            /\ pc[i] \notin {"probe", "build", "push", "store_logs",
                              "patch_deploying", "shared_read",
                              "shared_create", "patch_completed"}
                                 \cup CascadeKinds
            /\ CascadeLog(i) = <<>>
            /\ tracker[i].status \notin {"deploying", "completed"}
            /\ (faults = 0 /\ pc[i] = "sleep")
                  => tracker[i].status = "failed" /\ tracker[i].error = err[i]

\* C23 as the handler behaves: POST /instances/workspace does not look into
\* the upload.  Unless the orchestrator refuses the build-status record (500),
\* it stores the record as queued, schedules the job and answers 201 Queued
\* whatever the archive; an upload that is no gzip tar or holds no
\* devcontainer.json fails in the job, before the builder and before any
\* cascade object, and is reported as status failed of the tracker.
C23_ArchiveCheckedByJob == []C23_JobRefuses /\ [][C23_PostAccepts]_vars

C23_Witness ==
    \E i \in Instances :
        /\ BadArchive(i) /\ archive[i] = "not_gzip" /\ faults = 0
        /\ resp[i] = Enqueued(i).resp
        /\ tracker[i] = [status |-> "failed", error |-> "not a gzip file"]

\* the text w occurs in the text s
Contains(s, w) ==
    \E n \in 1..(Len(s) - Len(w) + 1) : SubSeq(s, n, n + Len(w) - 1) = w

\* the workspace POST carried an archive without any devcontainer.json
NoDescriptor(i) == req[i] = "workspace" /\ archive[i] = "without_devcontainer"

\* the positions of the job from the builder on
BuilderOn ==
    {"probe", "build", "push", "store_logs", "patch_deploying", "shared_read",
     "shared_create", "patch_completed"} \cup CascadeKinds

C24_NoBuildNoObject ==
    \A i \in Instances :
        NoDescriptor(i) =>
            /\ tracker[i].status \in {"", "queued", "building", "failed"}
            /\ tracker[i].status = "failed"
                  => Contains(tracker[i].error, "devcontainer")
            /\ pc[i] \notin BuilderOn
            /\ buildLog[i] = "" /\ ~Exists(i, "buildlogs")
            /\ CascadeLog(i) = <<>>
            /\ (faults = 0 /\ pc[i] \in {"sleep", "end"} /\ Exists(i, "buildstatus"))
                  => tracker[i].status = "failed"

C24_TrackerSteps ==
    \A i \in Instances :
        (NoDescriptor(i)' /\ faults' = 0 /\ tracker'[i] # tracker[i]) =>
            /\ <<tracker[i].status, tracker'[i].status>> \in
                  {<<"", "queued">>, <<"queued", "building">>,
                   <<"building", "failed">>, <<"failed", "">>}
            /\ shared' = shared

\* C24: a workspace archive that extracts without any devcontainer.json takes
\* the tracker through queued, building, failed (while the orchestrator
\* answers every call), never through deploying or completed; the stored
\* error names "devcontainer", the builder is never started and neither a
\* cascade object nor a build-logs record is created.
C24_NoDescriptorFails == []C24_NoBuildNoObject /\ [][C24_TrackerSteps]_vars

C24_Witness ==
    \E i \in Instances :
        /\ NoDescriptor(i) /\ faults = 0 /\ pc[i] = "sleep"
        /\ tracker[i] = [status |-> "failed",
                         error |-> "No devcontainer.json found in workspace"]

\* the job of i started the build tool (devcontainer build)
BuildAttempted(i) ==
    buildLog[i] # "" \/ err[i] = "Build failed with return code 1"

\* C28: once the job is over, the build-logs record has been stored if and
\* only if the build tool was started, also when the build exited non-zero.
C28_LogsIffBuilt ==
    \A i \in Instances :
        (req[i] \in BuildKinds /\ faults = 0 /\ pc[i] \in {"sleep", "end"})
            => (BuildAttempted(i) <=> "buildlogs" \in Made(i))

C25_BadImageRejected ==
    [][\A i \in Instances, b \in BaseImages, s \in SharedSizes :
          (create_simple_instance(i, b, s) /\ ~validate_base_image(b))
              => /\ resp'[i].code = 400
                 /\ orch' = orch /\ createdLog' = createdLog
                 /\ pc'[i] = "end"]_vars

C25_Refused ==
    \A i \in Instances, b \in BaseImages, s \in SharedSizes :
        (create_simple_instance(i, b, s) /\ ~validate_base_image(b))
            => /\ resp'[i].code = 422
               /\ orch' = orch /\ createdLog' = createdLog
               /\ pc'[i] = "end"

C25_NothingAfterRefusal ==
    \A i \in Instances :
        (req[i] = "simple" /\ ~validate_base_image(request[i].base_image))
            => /\ resp[i].code = 422 /\ pc[i] = "end"
               /\ objs[i] = {} /\ createdLog[i] = <<>>

\* C25 as the service behaves: a POST /instances/simple whose base_image does
\* not match ^[A-Za-z0-9][-A-Za-z0-9_./:]*$ fails the validator of the request
\* model and is answered 422 (the framework's validation error), not 400; the
\* handler is never entered and no orchestrator object, not even the shared
\* claim, is created then or later.
C25_BadImageUnprocessable ==
    []C25_NothingAfterRefusal /\ [][C25_Refused]_vars

C25_Witness ==
    \E i \in Instances :
        /\ req[i] = "simple" /\ request[i].base_image = "-bad image"
        /\ resp[i].code = 422 /\ objs[i] = {} /\ shared = {}

\* extension identifiers that occur in descriptors
ExtensionIds == {"ms-python.python", "golang.go", "rust-lang.rust-analyzer"}

Quoted(e) == "\"" \o e \o "\""

\* the devcontainer job of i has run to its end without an error
HappyBuild(i) ==
    /\ req[i] = "devcontainer" /\ faults = 0
    /\ pc[i] \in {"sleep", "end"} /\ resp[i].code = 201 /\ err[i] = ""

C27_ConfigOfBuild ==
    \A i \in Instances :
        HappyBuild(i) =>
            /\ pc[i] = "sleep" => tracker[i].status = "completed"
            /\ Exists(i, "config")
            /\ configData[i].DEVCONTAINER_IMAGE =
                  PULL_REGISTRY \o "/vscode-devcontainer-" \o i \o ":latest"
            /\ configData[i].DEVCONTAINER_IMAGE = resp[i].devcontainer_image
            /\ \A e \in ExtensionIds :
                  Contains(configData[i].VSCODE_CONFIG, Quoted(e))
                     <=> Contains(request[i].devcontainer_json, Quoted(e))

C27_GetOfBuild ==
    \A i \in Instances :
        (/\ req[i] = "devcontainer"
         /\ view[i].op = "get_instance" /\ view[i].pc = "idle"
         /\ view[i].code = 200)
            => view[i].devcontainer_image = resp[i].devcontainer_image

\* C27: when a POST /instances/devcontainer with a valid descriptor has gone
\* through without any error, the tracker is completed, the DEVCONTAINER_IMAGE
\* of the config record, and the devcontainer_image of GET /instances/{id},
\* is "<PULL_REGISTRY>/vscode-devcontainer-<id>:latest", the image announced
\* in the POST response, and VSCODE_CONFIG of the config record holds exactly
\* the extensions of the uploaded descriptor.
C27_HappyDevcontainer == C27_ConfigOfBuild /\ C27_GetOfBuild

C27_Witness ==
    \E i \in Instances :
        /\ HappyBuild(i) /\ tracker[i].status = "completed"
        /\ request[i].devcontainer_json = DescriptorTwo
        /\ view[i].op = "get_instance" /\ view[i].code = 200
        /\ view[i].devcontainer_image =
              "localhost:32000/vscode-devcontainer-alice-0000000a:latest"

\* no push of the image built for i succeeded
PushFailed(i) == Contains(buildLog[i], "WARNING: Failed to push to registry")

C29_PushNeverRaises ==
    \A i \in Instances :
        job_push(i) =>
            /\ pc'[i] = "store_logs" /\ err'[i] = err[i]
            /\ buildLog'[i] # buildLog[i] => PushFailed(i)'

C29_DeployingFollows ==
    \A i \in Instances :
        (/\ PushFailed(i) /\ job_patch_deploying(i) /\ faults' = faults
         /\ cmBound[i] /\ Exists(i, "buildstatus"))
            => tracker'[i].status = "deploying" /\ pc'[i] = "shared_read"

C29_PullReferenceUsed ==
    \A i \in Instances :
        PushFailed(i) =>
            /\ err[i] # "Failed to push image"
            /\ Exists(i, "buildlogs")
                  => Contains(logsData[i], "WARNING: Failed to push to registry")
            /\ Exists(i, "config")
                  => configData[i].DEVCONTAINER_IMAGE =
                        PULL_REGISTRY \o "/vscode-devcontainer-" \o i \o ":latest"
            /\ Exists(i, "workload")
                  => image[i] =
                        PULL_REGISTRY \o "/vscode-devcontainer-" \o i \o ":latest"

\* C29: a failed push after a successful build is not fatal: the push step
\* raises nothing and only appends a warning line to the logs, which is
\* stored with them; the job goes on to write deploying and to create the
\* config record and the workload with the pull reference of the image, and
\* it can reach completed.
C29_PushFailureNotFatal ==
    []C29_PullReferenceUsed
        /\ [][C29_PushNeverRaises /\ C29_DeployingFollows]_vars

C29_Witness ==
    \E i \in Instances :
        /\ PushFailed(i) /\ faults = 0 /\ pc[i] = "sleep"
        /\ tracker[i].status = "completed"
        /\ Contains(logsData[i], "using local image: 10.0.0.5:32000/vscode")

\* C30: the workload runs the image that was provided: the request's
\* base_image for a simple instance, the built image for a build-backed one;
\* the container image of the workload equals the image recorded in the
\* config record (DEVCONTAINER_IMAGE when it is not empty, else BASE_IMAGE).
C30_WorkloadRunsImage ==
    \A i \in Instances :
        (Exists(i, "workload") /\ Exists(i, "config")) =>
            /\ image[i] = IF configData[i].DEVCONTAINER_IMAGE # ""
                          THEN configData[i].DEVCONTAINER_IMAGE
                          ELSE configData[i].BASE_IMAGE
            /\ req[i] = "simple" => image[i] = request[i].base_image
            /\ req[i] \in BuildKinds => image[i] = resp[i].devcontainer_image

\* a user_id made of lowercase alphanumerics and '-' that, with the suffix,
\* is no longer than 63 characters
ValidUserId(user_id) ==
    /\ Len(user_id) >= 1 /\ Len(user_id) + 9 <= 63
    /\ Chars(user_id) \subseteq LowerAlphaNumerics \cup {"-"}

\* C26: every create endpoint rejects a user_id that would give an object
\* name invalid under the orchestrator's naming rules, and does so before it
\* creates any object.
C26_UserIdRejected ==
    \A i \in AllInstances :
        (~ValidUserId(UserOf(i)) /\ faults = 0) =>
            /\ objs[i] = {} /\ UserOf(i) \notin shared
            /\ resp[i] # NoResp => resp[i].code \in {400, 422}

\* C31: ensure_shared_storage_pvc is idempotent.  A create that is past it
\* without an error has the user's shared claim in place; the claim is created
\* only while the user has none, with the size of the request that created
\* it; a create whose read finds the claim goes on to the config record
\* without an error and without a write; and an existing claim keeps its
\* size and is never removed, whatever size later creates ask for.
C31_ClaimInPlace ==
    \A i \in Siblings :
        (pc[i] \in CascadeKinds \cup {"patch_completed"})
            => /\ UserOf(i) \in shared
               /\ sharedSize[UserOf(i)] \in SharedSizes

C31_CreatedOnce ==
    \A i \in Siblings :
        ensure_shared_storage_pvc_create(i) /\ shared' # shared
            => /\ UserOf(i) \notin shared
               /\ shared' = shared \cup {UserOf(i)}
               /\ sharedSize'[UserOf(i)] = request[i].shared_storage_size

C31_LaterCreate ==
    \A i \in Siblings :
        (ensure_shared_storage_pvc_read(i) /\ UserOf(i) \in shared
            /\ faults' = faults)
            => /\ pc'[i] = "config" /\ err'[i] = "" /\ resp' = resp
               /\ orch' = orch

C31_ClaimKept ==
    \A u \in Users :
        u \in shared => u \in shared' /\ sharedSize'[u] = sharedSize[u]

C31_EnsureIdempotent ==
    /\ []C31_ClaimInPlace
    /\ [][C31_CreatedOnce /\ C31_LaterCreate /\ C31_ClaimKept]_vars

\* both creates are past ensure_shared_storage_pvc, the later one having
\* asked for another size than the one the claim was created with
C31_Witness ==
    \E i, j \in Siblings :
        /\ i # j
        /\ pc[i] = "end" /\ resp[i].code = 201 /\ resp[i].status = "Creating"
        /\ pc[j] \in CascadeKinds /\ "config" \in objs[j]
        /\ request[i].shared_storage_size = "10Gi"
        /\ request[j].shared_storage_size = DEFAULT_SHARED_STORAGE_SIZE
        /\ sharedSize[UserOf(i)] = "10Gi"

\* C32: two creates running concurrently never contend on an object name,
\* two creates for the same user_id included: while the orchestrator rejects
\* no call for a reason of its own, no create fails at the creation of an
\* object.
C32_NoContention ==
    \A i \in Siblings :
        faults = 0 =>
            /\ err[i] # "500: Failed to create shared storage PVC"
            /\ \A k \in CascadeKinds : err[i] # "500: Failed to create " \o k

\* C33: every operation on an instance (its create, its background job, its
\* DELETE, the queries of its status and of its build logs) leaves every
\* object of any other instance as it was; of the shared claims it can only
\* add the one of its own user, and it never alters an existing one.
OperationOn(a) ==
    \/ \E b \in BaseImages, s \in SharedSizes : create_simple_instance(a, b, s)
    \/ \E u \in Uploads, s \in SharedSizes :
          create_devcontainer_instance(a, u, s)
    \/ \E s \in SharedSizes : create_workspace_instance(a, s)
    \/ ensure_shared_storage_pvc_read(a)
    \/ ensure_shared_storage_pvc_create(a)
    \/ create_resource(a)
    \/ run_background_task(a)
    \/ job_read_status(a)
    \/ job_patch_building(a)
    \/ job_extract_workspace(a)
    \/ job_docker_probe(a)
    \/ job_build(a)
    \/ job_push(a)
    \/ job_store_logs(a)
    \/ job_patch_deploying(a)
    \/ job_patch_completed(a)
    \/ job_patch_failed(a)
    \/ job_cleanup(a)
    \/ \E d \in Deleters : delete_instance(a, d)
    \/ \E d \in Deleters : delete_instance_resources(a, d)
    \/ get_instance(a)
    \/ get_instance_read_status(a)
    \/ get_instance_read_logs(a)
    \/ get_build_logs(a)
    \/ get_build_logs_status(a)

\* the objects named from the id b, with their contents
ObjectsOf(b) ==
    <<objs[b], tracker[b], logsData[b], configData[b], avail[b], image[b]>>

C33_OthersUntouched ==
    [][\A a \in AllInstances :
          LET Untouched ==
                /\ \A b \in AllInstances \ {a} : ObjectsOf(b)' = ObjectsOf(b)
                /\ shared' \in {shared, shared \cup {UserOf(a)}}
                /\ \A u \in shared : sharedSize'[u] = sharedSize[u]
          IN  ~Untouched => ~OperationOn(a)]_vars

\* the instance has been built, deployed, queried and deleted, and its job has
\* ended, while the sibling still has every one of its objects
C33_Witness ==
    \E a \in Instances, b \in SiblingInstances :
        /\ req[a] \in BuildKinds /\ pc[a] = "end"
        /\ CascadeLog(a) = CreateOrder
        /\ del[a][1].pc = "done" /\ del[a][1].res = 200
        /\ objs[a] = {}
        /\ view[a].code = 200
        /\ objs[b] = Kinds /\ tracker[b].status = "completed"

\* C34: in every reachable state the objects of an instance form a chain:
\* the ingress exists only if the service exists, the service only if the
\* workload exists, the workload only if the config record and the workspace
\* claim exist.
C34_DependencyChain ==
    \A i \in Instances :
        /\ Exists(i, "ingress") => Exists(i, "service")
        /\ Exists(i, "service") => Exists(i, "workload")
        /\ Exists(i, "workload")
              => Exists(i, "config") /\ Exists(i, "workspace")

\* a DELETE met the instance while its create was still at work and has
\* returned; the create is about to add the ingress to the four other objects
C34_Witness ==
    \E i \in Instances :
        /\ pc[i] = "ingress"
        /\ del[i][1].pc = "done" /\ del[i][1].res = 200
        /\ del[i][1].ctx = "running"
        /\ objs[i] \cap CascadeKinds =
              {"config", "workspace", "workload", "service"}

\* C35: in every reachable state, while the build-status record of an instance
\* reads queued or building, none of its config record, workspace claim,
\* workload, service or ingress exists.
C35_NothingBeforeDeploying ==
    \A i \in Instances :
        (Exists(i, "buildstatus") /\ tracker[i].status \in {"queued", "building"})
            => objs[i] \cap CascadeKinds = {}

\* C36: the job writes completed to the build-status record only after all
\* five objects have been created, and once the record reads completed or
\* failed no other status is written to it (the record is only removed by the
\* job's cleanup).
TerminalStatuses == {"completed", "failed"}

C36_CompletedAfterCascade ==
    \A i \in Instances :
        (tracker'[i].status = "completed" /\ tracker[i].status # "completed")
            => /\ req[i] \in BuildKinds
               /\ pc[i] = "patch_completed"
               /\ CascadeLog(i) = CreateOrder

C36_TerminalIsFinal ==
    \A i \in Instances :
        tracker[i].status \in TerminalStatuses
            => \/ tracker'[i] = tracker[i]
               \/ tracker'[i] = NoTracker /\ pc[i] = "sleep"
                     /\ ~Exists(i, "buildstatus")'

C36_CompletedLast == [][C36_CompletedAfterCascade /\ C36_TerminalIsFinal]_vars

C36_Witness ==
    \E i \in Instances :
        /\ pc[i] = "sleep" /\ Exists(i, "buildstatus")
        /\ tracker[i].status = "completed"
        /\ CascadeLog(i) = CreateOrder

\* C37: a DELETE on an id whose workload is absent is answered 404 (the
\* orchestrator answering the status read) and changes nothing in the
\* orchestrator: the request issues no delete call, so config record,
\* build-logs record, build-status record, workspace claim, service and
\* ingress stay as they are.
C37_Answered404 ==
    \A i \in Instances, d \in Deleters :
        (delete_instance(i, d) /\ ~Exists(i, "workload") /\ faults' = faults)
            => /\ del'[i][d].pc = "done" /\ del'[i][d].res = 404
               /\ orch' = orch

C37_NoDeleteCall ==
    \A i \in Instances, d \in Deleters :
        del[i][d].res = 404
            => /\ del[i][d].pc = "done" /\ del[i][d].k = 0
               /\ del'[i][d] = del[i][d]
               /\ ~delete_instance_resources(i, d)

C37_AbsentWorkload404 == [][C37_Answered404 /\ C37_NoDeleteCall]_vars

\* the DELETE was answered 404 on an instance whose create had failed at the
\* workload: the config record and the workspace claim are still there
C37_Witness ==
    \E i \in Instances, d \in Deleters :
        /\ del[i][d].pc = "done" /\ del[i][d].res = 404
        /\ pc[i] = "end" /\ err[i] = "500: Failed to create workload"
        /\ objs[i] \cap CascadeKinds = {"config", "workspace"}

\* C38: when two DELETEs run concurrently on a fully created instance, both
\* having met the workload, then once both have finished the ingress, the
\* service, the workload, the config record, the build-logs record and the
\* workspace claim are all gone, whatever the interleaving of their calls
\* (the orchestrator rejecting no call).
DeletedKinds ==
    {"ingress", "service", "workload", "config", "buildlogs", "workspace"}

\* both requests were accepted after the create had made its five objects
\* and have returned
BothDeleted(i) ==
    /\ CascadeLog(i) = CreateOrder
    /\ \A d \in 1..2 :
          /\ del[i][d].pc = "done" /\ del[i][d].res = 200
          /\ del[i][d].ctx = "quiet"
    /\ \A d \in Deleters : del[i][d].pc # "deleting"

C38_ConcurrentDeletes ==
    \A i \in Instances :
        (faults = 0 /\ BothDeleted(i)) => objs[i] \cap DeletedKinds = {}

C38_Witness ==
    \E i \in Instances :
        /\ faults = 0 /\ BothDeleted(i)
        /\ req[i] \in BuildKinds
        /\ "buildlogs" \in Made(i)
        /\ objs[i] \cap DeletedKinds = {}

\* C39: every enqueued background job leaves its build-status record in a
\* terminal state in the end: once the POST has queued the job, the record
\* eventually reads completed or failed.
C39_JobEndsTerminal ==
    \A i \in Instances :
        (pc[i] = "queued") ~> (tracker[i].status \in TerminalStatuses)

====
